---- MODULE Spec2Model ----
(***************************************************************************)
(* Subscription lifecycle engine of Cube_API: pending records created by   *)
(* checkout, activated by payment webhooks or by the client recovery       *)
(* endpoints, moved on by subscription webhooks, lazily expired by the     *)
(* permission check.  Next to it the generation request that spends the   *)
(* credits, the admin's config cache, and the Gemini key rotation.  Every  *)
(* await of a handler is one step, so handlers interleave at the store     *)
(* exactly where the code yields.                                          *)
(*                                                                         *)
(* Time is counted in days.  References, session ids and record ids are    *)
(* strings; an absent value (null / undefined) is NULL; an optional number *)
(* is a sequence of length 0 or 1.                                         *)
(***************************************************************************)
EXTENDS Integers, Sequences, FiniteSets, TLC

VARIABLES
    subs,      \* table `subscriptions`: record id -> row
    profile,   \* auth users: user id -> user_metadata (plan, generation_balance)
    prov,      \* payment provider: record id -> what its checkout session reports
    hs,        \* request handlers in flight: slot -> position and locals
    now,       \* wall clock, in days
    ops,       \* number of requests started so far
    last,      \* the response most recently sent: who, outcome, status, body parsed
    res,       \* the plan resolvers applied to a list of plan names, and their results
    cfg,       \* table `_app_config`, the in-memory config cache, the calls using them
    gem        \* the shared round-robin key index and the Gemini calls in flight

vars == <<subs, profile, prov, hs, now, ops, last, res, cfg, gem>>

NULL == "null"

\* ------------------------------------------------------------------ bounds
MaxOps == 4
MaxTicks == 1
TickDays == 31
MaxPlans == 5
MaxKeys == 3
MaxStartIndex == 4

\* ------------------------------------------------------- program constants
HOBBYIST_GENERATION_LIMIT == 20
PeriodDays == 30

\* ------------------------------------------------------------------- sets
Users == {"u1"}
Recs == {"s1", "s2"}
Handlers == {"h1", "h2"}
PlanNames == {"hobbyist", "pro"}

SessionOf(s) == IF s = "s1" THEN "cs_1" ELSE "cs_2"
\* payment ids the provider may report for the payment of record s: the
\* payment itself and a second identifier of the same transaction
PrimaryPay(s) == IF s = "s1" THEN "pay_1" ELSE "pay_2"
AltPay(s) == IF s = "s1" THEN "pi_1" ELSE "pi_2"
PayIds(s) == {PrimaryPay(s), AltPay(s)}
SubIdOf(s) == IF s = "s1" THEN "sub_1" ELSE "sub_2"

NoRow == [status |-> "none", plan |-> NULL, ref |-> NULL, session |-> NULL,
          period |-> <<>>, created |-> 0, user |-> NULL]
NoMeta == [plan |-> NULL, bal |-> <<>>]
NoSession == [payment_id |-> NULL, subscription_id |-> NULL, paid |-> FALSE]

Idle == [pc |-> "idle", kind |-> NULL, sub |-> NULL, user |-> NULL, ref |-> NULL,
         plan |-> NULL, was |-> NULL, curref |-> NULL, umeta |-> NoMeta,
         others |-> <<>>, rd |-> {}, auth |-> NULL]

NoResponse == [kind |-> NULL, out |-> NULL, resp |-> 0, auth |-> NULL, parsed |-> FALSE]

NoResolution == [plans |-> <<>>, inline |-> NULL, reduce |-> NULL]

\* a config call's locals: the Date.now() it took and the rows it fetched
NoConfigCall == [now |-> 0, dbConfig |-> NULL]
\* the config table as deployed, the cache empty (cachedConfig = null,
\* cacheLastUpdated = 0), no update answered yet
NoConfig == [db |-> "v0", cachedConfig |-> NULL, cacheLastUpdated |-> 0,
             updated |-> NULL, calls |-> [h \in Handlers |-> NoConfigCall]]

\* a Gemini call's locals: keys.length, startIndex, and the attempts made
\* so far, each the key index tried and how the attempt ended
NoGeminiCall == [keys |-> 0, startIndex |-> 0, attempts |-> <<>>]
NoGemini == [currentKeyIndex |-> 0, calls |-> [h \in Handlers |-> NoGeminiCall]]

Exists(s) == subs[s].status # "none"

\* the next unused record id (ids are handed out in order)
FreeRec == IF ~Exists("s1") THEN "s1" ELSE IF ~Exists("s2") THEN "s2" ELSE NULL

\* a request may start in slot h: slots are interchangeable, h2 is used only
\* while h1 is busy
CanStart(h) ==
    /\ hs[h].pc = "idle"
    /\ ops < MaxOps
    /\ (h = "h1" \/ hs["h1"].pc # "idle")

\* the request in slot h answers and ends
Respond(h, kind, out, resp, auth, parsed) ==
    /\ hs' = [hs EXCEPT ![h] = Idle]
    /\ last' = [kind |-> kind, out |-> out, resp |-> resp, auth |-> auth, parsed |-> parsed]

\* the same for a request that is past its first step
Reply(h, out, resp) ==
    Respond(h, hs[h].kind, out, resp, hs[h].auth, hs[h].kind = "webhook")

\* the request in slot h moves on
Goto(h, locals) ==
    /\ hs' = [hs EXCEPT ![h] = locals]
    /\ UNCHANGED last

Init ==
    /\ subs = [s \in Recs |-> NoRow]
    /\ profile = [u \in Users |-> NoMeta]
    /\ prov = [s \in Recs |-> NoSession]
    /\ hs = [h \in Handlers |-> Idle]
    /\ now = 0
    /\ ops = 0
    /\ last = NoResponse
    /\ res = NoResolution
    /\ cfg = NoConfig
    /\ gem = NoGemini

\* ------------------------------------------------------------- checkout
\* createCheckoutSession: insert the pending row, ask the provider for a
\* session, store its id, answer with the checkout URL.  Whatever is thrown
\* on the way is answered with 500 and nothing is undone.
\* What can happen to one call: the product id is not configured (thrown
\* before the insert), the provider call throws, the provider returns a
\* session without a checkout URL, or all goes well.
ProviderOutcomes == {"no_product", "error", "no_url", "ok"}

\* planId === 'one_time' ? 'hobbyist' : 'pro'
PlanOfProduct(planId) == IF planId = "one_time" THEN "hobbyist" ELSE "pro"

\* whether the call gets as far as the insert, and as far as the update that
\* stores the session id
RowInserted(provider) == provider # "no_product"
SessionStoredNever(provider) == FALSE
SessionStoredAlways(provider) == TRUE
SessionStored(provider) == provider \in {"no_url", "ok"}

CheckoutOutcome(provider) ==
    CASE provider = "ok" -> "created"
      [] provider = "no_url" -> "no_checkout_url"
      [] provider = "error" -> "provider_error"
      [] OTHER -> "no_product"

\* insert({ user_id, plan_name, status: 'pending' })
ActiveRow(u, planName) ==
    [NoRow EXCEPT !.status = "active", !.plan = planName, !.user = u, !.created = now]
PendingRow(u, planName) ==
    [NoRow EXCEPT !.status = "pending", !.plan = planName, !.user = u, !.created = now]

createCheckoutSession(h, u, planId, provider) ==
    /\ CanStart(h)
    /\ IF RowInserted(provider)
       THEN /\ FreeRec # NULL
            /\ LET s == FreeRec
                   row == PendingRow(u, PlanOfProduct(planId))
               IN  subs' = [subs EXCEPT ![s] =
                              IF SessionStored(provider)
                              THEN [row EXCEPT !.session = SessionOf(s)] ELSE row]
       ELSE subs' = subs
    /\ Respond(h, "checkout", CheckoutOutcome(provider),
               IF provider = "ok" THEN 200 ELSE 500, NULL, FALSE)
    /\ ops' = ops + 1
    /\ UNCHANGED <<profile, prov, now, res, cfg, gem>>

\* The customer pays on the provider's page: from then on the session of
\* record s reports the payment.  A one-time session reports a payment id, a
\* subscription session reports a subscription id and may report the id of
\* its first payment too.
ProviderPay(s, withPaymentId) ==
    /\ subs[s].session # NULL
    /\ prov[s] = NoSession
    /\ (subs[s].plan = "hobbyist" => withPaymentId)
    /\ prov' = [prov EXCEPT ![s] =
                  [payment_id |-> IF withPaymentId THEN PrimaryPay(s) ELSE NULL,
                   subscription_id |-> IF subs[s].plan = "pro" THEN SubIdOf(s) ELSE NULL,
                   paid |-> TRUE]]
    /\ UNCHANGED <<subs, profile, hs, now, ops, last, res, cfg, gem>>

\* The same, where the session reports the payment status paid before it
\* carries any identifier of the payment.
ProviderPayNoId(s) ==
    /\ subs[s].session # NULL
    /\ prov[s] = NoSession
    /\ prov' = [prov EXCEPT ![s] = [NoSession EXCEPT !.paid = TRUE]]
    /\ UNCHANGED <<subs, profile, hs, now, ops, last, res, cfg, gem>>

\* ---------------------------------------------------- signature verifier
\* A hex digest is a sequence of DigestLen digits; a signature header is any
\* short digit string, the empty one standing for a missing header; a secret
\* is a digit string, the empty one standing for "not configured".
DigestLen == 2
Hex == {0, 1}
RECURSIVE Strings(_)
Strings(n) == IF n = 0 THEN {<<>>}
              ELSE Strings(n - 1) \cup
                   {Append(x, d) : x \in {y \in Strings(n - 1) : Len(y) = n - 1}, d \in Hex}
Signatures == Strings(DigestLen + 1)
Secret == <<1, 0>>
SecretConfigs == {<<>>, Secret}

EventTypes == <<"payment.succeeded", "subscription.cancelled", "payment.failed",
                "subscription.expired", "subscription.on_hold", "subscription.renewed",
                "customer.created">>
BodyCode(type) == CHOOSE i \in 1..Len(EventTypes) : EventTypes[i] = type

RECURSIVE KeySum(_)
KeySum(k) == IF k = <<>> THEN 0 ELSE Head(k) + 2 * KeySum(Tail(k))

\* crypto.createHmac('sha256', secret).update(body).digest('hex'), abstracted
\* to a keyed digest of DigestLen digits that depends on key and body
Hmac(secret, body) == [i \in 1..DigestLen |-> (KeySum(secret) * i + body + (body \div i)) % 2]

\* crypto.timingSafeEqual: throws on buffers of different length
TimingSafeEqualPrefix(a, b) ==
    IF Len(a) <= Len(b) /\ a = SubSeq(b, 1, Len(a)) THEN "true" ELSE "false"
TimingSafeEqual(a, b) ==
    IF Len(a) # Len(b) THEN "throw" ELSE IF a = b THEN "true" ELSE "false"

\* the checks of handleDodoWebhook before the body is parsed
VerifyWebhook(signature, secret, body) ==
    IF signature = <<>> THEN "missing_signature"
    ELSE IF secret = <<>> THEN "not_configured"
    ELSE LET eq == TimingSafeEqual(signature, Hmac(secret, body))
         IN  IF eq = "throw" THEN "bad_length"
             ELSE IF eq = "false" THEN "mismatch" ELSE "verified"

\* the response of handleDodoWebhook once the signature is verified: 200
\* when processWebhookEvent returns (whatever it returns), 400 when it throws
WebhookStatusStrict(threw, returned) == IF threw \/ returned # "ok" THEN 400 ELSE 200
WebhookStatus(threw, returned) == IF threw THEN 400 ELSE 200

\* verify-by-id and recover-by-payment-id: 200 after activation returns, 500
\* from the catch block
RecoverStatus(threw) == IF threw THEN 500 ELSE 200

CallerStatus(kind, threw) ==
    IF kind = "webhook" THEN WebhookStatus(threw, "ok") ELSE RecoverStatus(threw)

\* whether the request really carries the HMAC of its body under the
\* configured secret
AuthOf(signature, secret, type) ==
    IF signature # <<>> /\ secret # <<>> /\ signature = Hmac(secret, BodyCode(type))
    THEN "genuine" ELSE "forged"

\* handleDodoWebhook, verification failed: answer and stop
handleDodoWebhook_reject(h, signature, secret, type) ==
    /\ CanStart(h)
    /\ LET v == VerifyWebhook(signature, secret, BodyCode(type))
       IN  /\ v # "verified"
           /\ Respond(h, "webhook", v, 400, AuthOf(signature, secret, type), FALSE)
    /\ ops' = ops + 1
    /\ UNCHANGED <<subs, profile, prov, now, res, cfg, gem>>

\* handleDodoWebhook, verification passed: the body is parsed and processed
Accepted(signature, secret, type) ==
    VerifyWebhook(signature, secret, BodyCode(type)) = "verified"

\* --------------------------------------------------------- plan resolver
\* activatePlanAndUpdateUser, step 3: the plan of highest priority among
\* the listed plan names
NewPrimaryPlanFirst(plans) ==
    IF plans = <<>> THEN "free"
    ELSE IF Head(plans) \in {"pro", "hobbyist"} THEN Head(plans) ELSE "free"
NewPrimaryPlan(plans) ==
    IF \E i \in 1..Len(plans) : plans[i] = "pro" THEN "pro"
    ELSE IF \E i \in 1..Len(plans) : plans[i] = "hobbyist" THEN "hobbyist"
    ELSE "free"

\* createCheckoutSession of the revision with the plan hierarchy: the best
\* current plan, a reduce over the active rows starting from 'free'
PlanPriority(plan) == IF plan = "pro" THEN 2 ELSE IF plan = "hobbyist" THEN 1 ELSE 0
RECURSIVE ReducePlans(_, _)
ReducePlans(best, rest) ==
    IF rest = <<>> THEN best
    ELSE ReducePlans(IF PlanPriority(Head(rest)) > PlanPriority(best) THEN Head(rest) ELSE best,
                     Tail(rest))
BestCurrentPlan(plans) == ReducePlans("free", plans)

\* the resolvers applied to the list under test
resolve_inline ==
    /\ res.inline = NULL
    /\ res' = [res EXCEPT !.inline = NewPrimaryPlan(res.plans)]
    /\ UNCHANGED <<subs, profile, prov, hs, now, ops, last, cfg, gem>>

resolve_reduce ==
    /\ res.reduce = NULL
    /\ res' = [res EXCEPT !.reduce = BestCurrentPlan(res.plans)]
    /\ UNCHANGED <<subs, profile, prov, hs, now, ops, last, cfg, gem>>

\* the store lists the same rows in another order: two neighbours swap
\* places, the results already computed stay
resolve_reorder(i) ==
    /\ i \in 1..(Len(res.plans) - 1)
    /\ res.plans[i] # res.plans[i + 1]
    /\ res' = [res EXCEPT !.plans = [j \in 1..Len(res.plans) |->
                                      IF j = i THEN res.plans[i + 1]
                                      ELSE IF j = i + 1 THEN res.plans[i]
                                      ELSE res.plans[j]]]
    /\ UNCHANGED <<subs, profile, prov, hs, now, ops, last, cfg, gem>>

\* --------------------------------------------------------------- activation
\* activatePlanAndUpdateUser, the checks on the re-fetched row
ActivationDecisionNoIdem(status, curref, incoming) ==
    IF status = "active" /\ curref # NULL /\ incoming # NULL /\ curref # incoming
    THEN "conflict" ELSE "apply"
ActivationDecisionNoConflict(status, curref, incoming) ==
    IF status = "active" /\ curref # NULL /\ incoming # NULL /\ curref = incoming
    THEN "noop" ELSE "apply"
ActivationDecision(status, curref, incoming) ==
    IF status = "active" /\ curref # NULL /\ incoming # NULL /\ curref = incoming
    THEN "noop"
    ELSE IF status = "active" /\ curref # NULL /\ incoming # NULL /\ curref # incoming
    THEN "conflict"
    ELSE "apply"

\* the reference written by step 1: incoming || current || null
WrittenRef(incoming, curref) == IF incoming # NULL THEN incoming ELSE curref

\* step 4: the metadata written, from the metadata read in step 2
NewMetadataKeepsBalance(meta, planName, wasActive, newPrimaryPlan) ==
    [plan |-> newPrimaryPlan,
     bal |-> IF planName = "hobbyist" /\ ~wasActive
             THEN <<(IF meta.bal = <<>> THEN 0 ELSE meta.bal[1]) + HOBBYIST_GENERATION_LIMIT>>
             ELSE meta.bal]
NewMetadataOverwrites(meta, planName, wasActive, newPrimaryPlan) ==
    [plan |-> newPrimaryPlan,
     bal |-> IF planName = "hobbyist" /\ ~wasActive
             THEN <<HOBBYIST_GENERATION_LIMIT>>
             ELSE IF planName = "pro" THEN <<>>
             ELSE meta.bal]
NewMetadata(meta, planName, wasActive, newPrimaryPlan) ==
    [plan |-> newPrimaryPlan,
     bal |-> IF planName = "hobbyist" /\ ~wasActive
             THEN <<(IF meta.bal = <<>> THEN 0 ELSE meta.bal[1]) + HOBBYIST_GENERATION_LIMIT>>
             ELSE IF planName = "pro" THEN <<>>
             ELSE meta.bal]

\* plan names of the user's other active rows, in record order
RECURSIVE OtherActive(_, _, _)
OtherActive(u, s, rest) ==
    IF rest = <<>> THEN <<>>
    ELSE LET r == Head(rest)
         IN  (IF r # s /\ subs[r].status = "active" /\ subs[r].user = u
              THEN <<subs[r].plan>> ELSE <<>>) \o OtherActive(u, s, Tail(rest))
RecOrder == <<"s1", "s2">>

\* enter activatePlanAndUpdateUser(userId, {...row, dodo_subscription_id: ref})
EnterActivation(kind, u, s, ref, auth) ==
    [Idle EXCEPT !.pc = "act_load", !.kind = kind, !.user = u, !.sub = s, !.ref = ref,
                 !.plan = subs[s].plan, !.auth = auth]

\* step 0: re-fetch the row, no-op or conflict or go on
activate_load(h) ==
    /\ hs[h].pc = "act_load"
    /\ LET cur == subs[hs[h].sub]
           d == ActivationDecision(cur.status, cur.ref, hs[h].ref)
       IN  IF d = "noop" THEN Reply(h, "noop", CallerStatus(hs[h].kind, FALSE))
           ELSE IF d = "conflict"
           THEN Reply(h, "conflict", CallerStatus(hs[h].kind, TRUE))
           ELSE Goto(h, [hs[h] EXCEPT !.pc = "act_update", !.was = cur.status,
                                      !.curref = cur.ref])
    /\ UNCHANGED <<subs, profile, prov, now, ops, res, cfg, gem>>

\* step 1: set the row active and record the reference
activate_updateSub(h) ==
    /\ hs[h].pc = "act_update"
    /\ subs' = [subs EXCEPT ![hs[h].sub] =
                  [@ EXCEPT !.status = "active", !.ref = WrittenRef(hs[h].ref, hs[h].curref)]]
    /\ Goto(h, [hs[h] EXCEPT !.pc = "act_read", !.rd = {}])
    /\ UNCHANGED <<profile, prov, now, ops, res, cfg, gem>>

AfterRead(h, what) ==
    IF hs[h].rd \cup {what} = {"user", "subs"} THEN "act_write" ELSE "act_read"

\* step 2, Promise.all: the two reads land in either order
activate_getUser(h) ==
    /\ hs[h].pc = "act_read" /\ "user" \notin hs[h].rd
    /\ Goto(h, [hs[h] EXCEPT !.umeta = profile[hs[h].user], !.rd = @ \cup {"user"},
                             !.pc = AfterRead(h, "user")])
    /\ UNCHANGED <<subs, profile, prov, now, ops, res, cfg, gem>>

activate_otherActiveSubs(h) ==
    /\ hs[h].pc = "act_read" /\ "subs" \notin hs[h].rd
    /\ Goto(h, [hs[h] EXCEPT !.others = OtherActive(hs[h].user, hs[h].sub, RecOrder),
                             !.rd = @ \cup {"subs"}, !.pc = AfterRead(h, "subs")])
    /\ UNCHANGED <<subs, profile, prov, now, ops, res, cfg, gem>>

\* steps 3 to 5: resolve the plan, write the metadata, return
activate_updateUser(h) ==
    /\ hs[h].pc = "act_write"
    /\ LET allActivePlans == hs[h].others \o <<hs[h].plan>>
       IN  profile' = [profile EXCEPT ![hs[h].user] =
                          NewMetadata(hs[h].umeta, hs[h].plan, hs[h].was = "active",
                                      NewPrimaryPlan(allActivePlans))]
    /\ Reply(h, "applied", CallerStatus(hs[h].kind, FALSE))
    /\ UNCHANGED <<subs, prov, now, ops, res, cfg, gem>>

\* step 5 fails: updateUserById returns an error, the record stays active,
\* the profile stays as it was, and the error is thrown to the caller
activate_updateUserFails(h) ==
    /\ hs[h].pc = "act_write"
    /\ Reply(h, "profile_write_failed", CallerStatus(hs[h].kind, TRUE))
    /\ UNCHANGED <<subs, profile, prov, now, ops, res, cfg, gem>>

\* ------------------------------------------- webhook: payment.succeeded
\* processWebhookEvent, case 'payment.succeeded', up to the call of
\* activatePlanAndUpdateUser: what the event leads to
PaymentSucceededRouteNoSubscriptionCheck(hasMeta, rowExists, planName, subscription) ==
    IF ~hasMeta THEN "missing_metadata"
    ELSE IF ~rowExists THEN "record_not_found"
    ELSE IF planName \in {"hobbyist", "pro"} THEN "activate"
    ELSE "unhandled_plan"
PaymentSucceededRoute(hasMeta, rowExists, planName, subscription) ==
    IF ~hasMeta THEN "missing_metadata"
    ELSE IF ~rowExists THEN "record_not_found"
    ELSE IF planName = "hobbyist" THEN "activate"
    ELSE IF planName = "pro"
    THEN (IF subscription = NULL THEN "missing_subscription_id" ELSE "activate")
    ELSE "unhandled_plan"

\* the provider sends payment.succeeded for the paid session of record s; the
\* metadata is the one checkout attached (or is missing, or names a plan this
\* server does not handle); a stale event may name a record id not in store
webhook_paymentSucceeded(h, signature, secret, s, hasMeta, planName, payRef, subscription) ==
    /\ CanStart(h)
    /\ Accepted(signature, secret, "payment.succeeded")
    /\ Exists(s) => prov[s] # NoSession /\ planName \in {subs[s].plan, "team"}
    /\ LET route == PaymentSucceededRoute(hasMeta, Exists(s), planName, subscription)
           ref == IF planName = "hobbyist" THEN payRef ELSE subscription
       IN  IF route = "activate"
           THEN Goto(h, EnterActivation("webhook", subs[s].user, s, ref,
                                    AuthOf(signature, secret, "payment.succeeded")))
           ELSE Respond(h, "webhook", route, WebhookStatus(FALSE, route), AuthOf(signature, secret, "payment.succeeded"), TRUE)
    /\ ops' = ops + 1
    /\ UNCHANGED <<subs, profile, prov, now, res, cfg, gem>>

\* an event of a type processWebhookEvent has no case for
webhook_unhandled(h, signature, secret) ==
    /\ CanStart(h)
    /\ Accepted(signature, secret, "customer.created")
    /\ Respond(h, "webhook", "unhandled_type", WebhookStatus(FALSE, "ok"),
               AuthOf(signature, secret, "customer.created"), TRUE)
    /\ ops' = ops + 1
    /\ UNCHANGED <<subs, profile, prov, now, res, cfg, gem>>

\* ------------------------------------------------- recovery endpoints
RecoveryWindowDays == 7

\* getVerifiedDodoSessionById: the session when the provider reports it
\* paid or reports a subscription id, else null
SessionIsPaid(session) == session.paid \/ session.subscription_id # NULL

\* the permanent reference both recovery endpoints choose:
\* payment_id || payment_intent, else subscription_id, else null
ReferenceOf(session) ==
    IF session.payment_id # NULL THEN session.payment_id ELSE session.subscription_id

\* if (!referenceId) throw: activation is entered only with a reference
HasReferenceAlways(referenceId) == TRUE
HasReference(referenceId) == referenceId # NULL

\* handleVerifyPaymentStatus up to the call of activatePlanAndUpdateUser
VerifyRouteNoStatusCheck(caller, s) ==
    IF caller = NULL THEN "unauthorized"
    ELSE IF ~Exists(s) \/ subs[s].user # caller THEN "not_found"
    ELSE IF subs[s].status = "active" THEN "already_active"
    ELSE IF subs[s].session = NULL THEN "not_verifiable"
    ELSE IF ~SessionIsPaid(prov[s]) THEN "not_confirmed"
    ELSE IF ~HasReference(ReferenceOf(prov[s])) THEN "no_reference"
    ELSE "activate"
VerifyRouteNoActiveCheck(caller, s) ==
    IF caller = NULL THEN "unauthorized"
    ELSE IF ~Exists(s) \/ subs[s].user # caller THEN "not_found"
    ELSE IF subs[s].status # "pending" \/ subs[s].session = NULL THEN "not_verifiable"
    ELSE IF ~SessionIsPaid(prov[s]) THEN "not_confirmed"
    ELSE IF ~HasReference(ReferenceOf(prov[s])) THEN "no_reference"
    ELSE "activate"
VerifyRoute(caller, s) ==
    IF caller = NULL THEN "unauthorized"
    ELSE IF ~Exists(s) \/ subs[s].user # caller THEN "not_found"
    ELSE IF subs[s].status = "active" THEN "already_active"
    ELSE IF subs[s].status # "pending" \/ subs[s].session = NULL THEN "not_verifiable"
    ELSE IF ~SessionIsPaid(prov[s]) THEN "not_confirmed"
    ELSE IF ~HasReference(ReferenceOf(prov[s])) THEN "no_reference"
    ELSE "activate"

VerifyRouteStatus(route) ==
    CASE route = "unauthorized" -> 401
      [] route = "not_found" -> 404
      [] route = "already_active" -> 200
      [] route = "not_verifiable" -> 409
      [] route = "not_confirmed" -> 202
      [] OTHER -> 500

handleVerifyPaymentStatus(h, caller, s) ==
    /\ CanStart(h)
    /\ LET route == VerifyRoute(caller, s)
       IN  IF route = "activate"
           THEN Goto(h, EnterActivation("verify", caller, s, ReferenceOf(prov[s]), NULL))
           ELSE Respond(h, "verify", route, VerifyRouteStatus(route), NULL, FALSE)
    /\ ops' = ops + 1
    /\ UNCHANGED <<subs, profile, prov, now, res, cfg, gem>>

\* getVerifiedDodoSessionByPaymentId: the pending rows with a session id
\* created in the last 7 days whose session reports this payment id and is
\* accepted as paid
RecoveryCandidatesNoWindow(paymentId) ==
    {s \in Recs : /\ subs[s].status = "pending"
                  /\ subs[s].session # NULL
                  /\ prov[s].payment_id = paymentId
                  /\ SessionIsPaid(prov[s])}
RecoveryCandidates(paymentId) ==
    {s \in Recs : /\ subs[s].status = "pending"
                  /\ subs[s].session # NULL
                  /\ subs[s].created >= now - RecoveryWindowDays
                  /\ prov[s].payment_id = paymentId
                  /\ SessionIsPaid(prov[s])}

\* handleRecoverByPaymentId, the provider lookup: 202 when no session matches
handleRecoverByPaymentId(h, paymentId) ==
    /\ CanStart(h)
    /\ LET found == RecoveryCandidates(paymentId)
       IN  IF found = {}
           THEN Respond(h, "recover", "not_confirmed", 202, NULL, FALSE)
           ELSE Goto(h, [Idle EXCEPT !.pc = "rec_select", !.kind = "recover",
                                     !.sub = CHOOSE s \in found : TRUE])
    /\ ops' = ops + 1
    /\ UNCHANGED <<subs, profile, prov, now, res, cfg, gem>>

\* handleRecoverByPaymentId, the select of the pending row by session id
recover_select(h) ==
    /\ hs[h].pc = "rec_select"
    /\ LET s == hs[h].sub
       IN  IF subs[s].status # "pending"
           THEN Reply(h, "no_pending_record", RecoverStatus(TRUE))
           ELSE IF ~HasReference(ReferenceOf(prov[s]))
           THEN Reply(h, "no_reference", RecoverStatus(TRUE))
           ELSE Goto(h, EnterActivation("recover", subs[s].user, s, ReferenceOf(prov[s]), NULL))
    /\ UNCHANGED <<subs, profile, prov, now, ops, res, cfg, gem>>

\* --------------------------------------- webhook: subscription events
\* the rows an update filtered by .eq('dodo_subscription_id', id) touches
RefMatchesLoose(row, id) == row.status # "none" /\ (row.ref = id \/ row.ref = NULL)
RefMatches(row, id) == row.status # "none" /\ row.ref # NULL /\ row.ref = id

Matched(id) == {s \in Recs : RefMatches(subs[s], id)}

SetStatus(id, status) ==
    [s \in Recs |-> IF s \in Matched(id) THEN [subs[s] EXCEPT !.status = status] ELSE subs[s]]

\* payment.failed and subscription.on_hold: mark the row past_due
webhook_paymentFailed(h, signature, secret, id) ==
    /\ CanStart(h)
    /\ Accepted(signature, secret, "payment.failed")
    /\ subs' = SetStatus(id, "past_due")
    /\ Respond(h, "webhook", "past_due", WebhookStatus(FALSE, "ok"),
               AuthOf(signature, secret, "payment.failed"), TRUE)
    /\ ops' = ops + 1
    /\ UNCHANGED <<profile, prov, now, res, cfg, gem>>

webhook_onHold(h, signature, secret, id) ==
    /\ CanStart(h)
    /\ Accepted(signature, secret, "subscription.on_hold")
    /\ subs' = SetStatus(id, "past_due")
    /\ Respond(h, "webhook", "on_hold", WebhookStatus(FALSE, "ok"),
               AuthOf(signature, secret, "subscription.on_hold"), TRUE)
    /\ ops' = ops + 1
    /\ UNCHANGED <<profile, prov, now, res, cfg, gem>>

\* subscription.cancelled / subscription.expired: set the status, then, when
\* a row was matched, go on to the downgrade check
webhook_ended(h, signature, secret, type, id) ==
    /\ CanStart(h)
    /\ Accepted(signature, secret, type)
    /\ LET status == IF type = "subscription.cancelled" THEN "cancelled" ELSE "expired"
           m == Matched(id)
       IN  /\ subs' = SetStatus(id, status)
           /\ IF m = {}
              THEN Respond(h, "webhook", "no_row", WebhookStatus(FALSE, "ok"),
                           AuthOf(signature, secret, type), TRUE)
              ELSE Goto(h, [Idle EXCEPT !.pc = "end_subs", !.kind = "webhook",
                                        !.auth = AuthOf(signature, secret, type),
                                        !.user = subs[CHOOSE s \in m : TRUE].user])
    /\ ops' = ops + 1
    /\ UNCHANGED <<profile, prov, now, res, cfg, gem>>

\* the select of the user's active rows: downgrade only when there is none
ended_otherActiveSubs(h) ==
    /\ hs[h].pc = "end_subs"
    /\ IF OtherActive(hs[h].user, NULL, RecOrder) = <<>>
       THEN Goto(h, [hs[h] EXCEPT !.pc = "end_user"])
       ELSE Reply(h, "kept_plan", WebhookStatus(FALSE, "ok"))
    /\ UNCHANGED <<subs, profile, prov, now, ops, res, cfg, gem>>

ended_getUser(h) ==
    /\ hs[h].pc = "end_user"
    /\ Goto(h, [hs[h] EXCEPT !.pc = "end_write", !.umeta = profile[hs[h].user]])
    /\ UNCHANGED <<subs, profile, prov, now, ops, res, cfg, gem>>

\* the metadata written by the downgrade:
\* { ...oldUser.user_metadata, plan: 'free', generation_balance: 0 }
DowngradedMetadataKeepsBalance(meta) == [meta EXCEPT !.plan = "free"]
DowngradedMetadata(meta) == [meta EXCEPT !.plan = "free", !.bal = <<0>>]

ended_updateUser(h) ==
    /\ hs[h].pc = "end_write"
    /\ profile' = [profile EXCEPT ![hs[h].user] = DowngradedMetadata(hs[h].umeta)]
    /\ Reply(h, "downgraded", WebhookStatus(FALSE, "ok"))
    /\ UNCHANGED <<subs, prov, now, ops, res, cfg, gem>>

\* subscription.renewed: status active, period_ends_at 30 days from now, then
\* the profile plan is set to the row's plan
webhook_renewed(h, signature, secret, id) ==
    /\ CanStart(h)
    /\ Accepted(signature, secret, "subscription.renewed")
    /\ LET m == Matched(id)
       IN  /\ subs' = [s \in Recs |-> IF s \in m
                                      THEN [subs[s] EXCEPT !.status = "active",
                                                           !.period = <<now + PeriodDays>>]
                                      ELSE subs[s]]
           /\ IF m = {}
              THEN Respond(h, "webhook", "no_row", WebhookStatus(FALSE, "ok"),
                           AuthOf(signature, secret, "subscription.renewed"), TRUE)
              ELSE LET s == CHOOSE x \in m : TRUE
                   IN  Goto(h, [Idle EXCEPT !.pc = "ren_user", !.kind = "webhook",
                                            !.auth = AuthOf(signature, secret, "subscription.renewed"),
                                            !.user = subs[s].user, !.plan = subs[s].plan])
    /\ ops' = ops + 1
    /\ UNCHANGED <<profile, prov, now, res, cfg, gem>>

renewed_getUser(h) ==
    /\ hs[h].pc = "ren_user"
    /\ Goto(h, [hs[h] EXCEPT !.pc = "ren_write", !.umeta = profile[hs[h].user]])
    /\ UNCHANGED <<subs, profile, prov, now, ops, res, cfg, gem>>

renewed_updateUser(h) ==
    /\ hs[h].pc = "ren_write"
    /\ profile' = [profile EXCEPT ![hs[h].user] = [hs[h].umeta EXCEPT !.plan = hs[h].plan]]
    /\ Reply(h, "renewed", WebhookStatus(FALSE, "ok"))
    /\ UNCHANGED <<subs, prov, now, ops, res, cfg, gem>>

\* ------------------------------------------------------ permission check
FREE_GENERATION_LIMIT == 3

ActiveOf(u) == {s \in Recs : subs[s].status = "active" /\ subs[s].user = u}

\* new Date() > new Date(period_ends_at)
IsLapsedInclusive(period, today) == period # <<>> /\ today >= period[1] - PeriodDays
IsLapsed(period, today) == period # <<>> /\ today > period[1]

\* canUserGenerate, the select of the active row (maybeSingle: more than one
\* row is an error) and what follows from it
canUserGenerate(h, u) ==
    /\ CanStart(h)
    /\ LET a == ActiveOf(u)
       IN  IF Cardinality(a) > 1
           THEN Respond(h, "generate", "error", 500, NULL, FALSE)
           ELSE IF a # {} /\ subs[CHOOSE s \in a : TRUE].plan = "pro"
           THEN LET s == CHOOSE x \in a : TRUE
                IN  IF IsLapsed(subs[s].period, now)
                    THEN Goto(h, [Idle EXCEPT !.pc = "gen_expire", !.kind = "generate",
                                              !.user = u, !.sub = s])
                    ELSE Respond(h, "generate", "allowed_pro", 200, NULL, FALSE)
           ELSE Goto(h, [Idle EXCEPT !.pc = "gen_user", !.kind = "generate", !.user = u])
    /\ ops' = ops + 1
    /\ UNCHANGED <<subs, profile, prov, now, res, cfg, gem>>

\* the lapsed pro row is marked expired, by id
generate_expire(h) ==
    /\ hs[h].pc = "gen_expire"
    /\ subs' = [subs EXCEPT ![hs[h].sub] = [@ EXCEPT !.status = "expired"]]
    /\ Goto(h, [hs[h] EXCEPT !.pc = "gen_user"])
    /\ UNCHANGED <<profile, prov, now, ops, res, cfg, gem>>

\* the balance check on the re-fetched user
generate_getUser(h) ==
    /\ hs[h].pc = "gen_user"
    /\ LET meta == profile[hs[h].user]
           plan == IF meta.plan = NULL THEN "free" ELSE meta.plan
           generationBalance == IF meta.bal # <<>> THEN meta.bal[1]
                                ELSE IF plan = "free" THEN FREE_GENERATION_LIMIT ELSE 0
       IN  IF generationBalance <= 0 THEN Reply(h, "denied", 403)
           ELSE Reply(h, "allowed", 200)
    /\ UNCHANGED <<subs, profile, prov, now, ops, res, cfg, gem>>

\* ------------------------------------------------------ credit consumption
\* generation_balance ?? (plan === 'free' ? FREE_GENERATION_LIMIT : 0)
CurrentBalance(meta) ==
    IF meta.bal # <<>> THEN meta.bal[1]
    ELSE IF meta.plan \in {NULL, "free"} THEN FREE_GENERATION_LIMIT ELSE 0

\* consumeGenerationCredit, the select of the active row: the error that
\* maybeSingle gives for more than one row is not looked at, and the row is
\* then undefined
consumeGenerationCredit(h, u) ==
    /\ CanStart(h)
    /\ LET a == ActiveOf(u)
       IN  IF Cardinality(a) = 1 /\ subs[CHOOSE s \in a : TRUE].plan = "pro"
           THEN Respond(h, "consume", "unlimited", 200, NULL, FALSE)
           ELSE Goto(h, [Idle EXCEPT !.pc = "con_user", !.kind = "consume", !.user = u])
    /\ ops' = ops + 1
    /\ UNCHANGED <<subs, profile, prov, now, res, cfg, gem>>

\* the re-fetch of the user
consume_getUser(h) ==
    /\ hs[h].pc = "con_user"
    /\ Goto(h, [hs[h] EXCEPT !.pc = "con_write", !.umeta = profile[hs[h].user]])
    /\ UNCHANGED <<subs, profile, prov, now, ops, res, cfg, gem>>

\* Math.max(0, currentBalance - 1)
NewBalanceUnclamped(currentBalance) == currentBalance - 1
NewBalance(currentBalance) == IF currentBalance - 1 > 0 THEN currentBalance - 1 ELSE 0

\* the write of the new balance into the metadata read
consume_updateUser(h) ==
    /\ hs[h].pc = "con_write"
    /\ LET currentBalance == CurrentBalance(hs[h].umeta)
           newBalance == NewBalance(currentBalance)
       IN  profile' = [profile EXCEPT ![hs[h].user] = [hs[h].umeta EXCEPT !.bal = <<newBalance>>]]
    /\ Reply(h, "consumed", 200)
    /\ UNCHANGED <<subs, prov, now, ops, res, cfg, gem>>

\* ------------------------------------------------------- generation request
\* handleGenerateDiagram: the permission check, the call of the AI service,
\* the consumption of a credit, the answer.  A request that brings its own
\* API key (kept in the slot's ref) skips the check and the consumption.
UserKey == "user_key"

\* the select of the active row in canUserGenerate, or straight to the AI
\* service for a request with its own key
handleGenerateDiagram(h, u, userApiKey) ==
    /\ CanStart(h)
    /\ LET a == ActiveOf(u)
           req == [Idle EXCEPT !.kind = "diagram", !.user = u, !.ref = userApiKey]
       IN  IF userApiKey # NULL THEN Goto(h, [req EXCEPT !.pc = "gd_ai"])
           ELSE IF Cardinality(a) > 1
           THEN Respond(h, "diagram", "error", 500, NULL, FALSE)
           ELSE IF a # {} /\ subs[CHOOSE s \in a : TRUE].plan = "pro"
           THEN LET s == CHOOSE x \in a : TRUE
                IN  IF IsLapsed(subs[s].period, now)
                    THEN Goto(h, [req EXCEPT !.pc = "gd_expire", !.sub = s])
                    ELSE Goto(h, [req EXCEPT !.pc = "gd_ai"])
           ELSE Goto(h, [req EXCEPT !.pc = "gd_user"])
    /\ ops' = ops + 1
    /\ UNCHANGED <<subs, profile, prov, now, res, cfg, gem>>

\* canUserGenerate: the lapsed pro row is marked expired, by id
diagram_expire(h) ==
    /\ hs[h].pc = "gd_expire"
    /\ subs' = [subs EXCEPT ![hs[h].sub] = [@ EXCEPT !.status = "expired"]]
    /\ Goto(h, [hs[h] EXCEPT !.pc = "gd_user"])
    /\ UNCHANGED <<profile, prov, now, ops, res, cfg, gem>>

\* canUserGenerate: the balance check on the re-fetched user; when it
\* fails the request is answered 429 GENERATION_LIMIT_EXCEEDED
Allowed(meta) == CurrentBalance(meta) > 0

diagram_getUser(h) ==
    /\ hs[h].pc = "gd_user"
    /\ IF Allowed(profile[hs[h].user])
       THEN Goto(h, [hs[h] EXCEPT !.pc = "gd_ai"])
       ELSE Reply(h, "limit_exceeded", 429)
    /\ UNCHANGED <<subs, profile, prov, now, ops, res, cfg, gem>>

\* aiService.generateJsonFromPrompt returns the diagram or throws
diagram_aiService(h, ok) ==
    /\ hs[h].pc = "gd_ai"
    /\ IF ~ok THEN Reply(h, "ai_error", 500)
       ELSE IF hs[h].ref # NULL THEN Reply(h, "generated", 200)
       ELSE Goto(h, [hs[h] EXCEPT !.pc = "gd_consume"])
    /\ UNCHANGED <<subs, profile, prov, now, ops, res, cfg, gem>>

\* consumeGenerationCredit: the select of the active row
diagram_consumeSelect(h) ==
    /\ hs[h].pc = "gd_consume"
    /\ LET a == ActiveOf(hs[h].user)
       IN  IF Cardinality(a) = 1 /\ subs[CHOOSE s \in a : TRUE].plan = "pro"
           THEN Reply(h, "generated", 200)
           ELSE Goto(h, [hs[h] EXCEPT !.pc = "gd_cuser"])
    /\ UNCHANGED <<subs, profile, prov, now, ops, res, cfg, gem>>

\* consumeGenerationCredit: the re-fetch of the user
diagram_consumeGetUser(h) ==
    /\ hs[h].pc = "gd_cuser"
    /\ Goto(h, [hs[h] EXCEPT !.pc = "gd_cwrite", !.umeta = profile[hs[h].user]])
    /\ UNCHANGED <<subs, profile, prov, now, ops, res, cfg, gem>>

\* consumeGenerationCredit: the write of the new balance; the diagram is
\* sent with it
diagram_consumeUpdateUser(h) ==
    /\ hs[h].pc = "gd_cwrite"
    /\ profile' = [profile EXCEPT ![hs[h].user] =
                      [hs[h].umeta EXCEPT !.bal = <<NewBalance(CurrentBalance(hs[h].umeta))>>]]
    /\ Reply(h, "generated", 200)
    /\ UNCHANGED <<subs, prov, now, ops, res, cfg, gem>>

\* ------------------------------------------------------------ plan switch
\* handleSwitchPlan: authenticateUser gives the user with the metadata of
\* that moment ...
handleSwitchPlan(h, u, s) ==
    /\ CanStart(h)
    /\ Goto(h, [Idle EXCEPT !.pc = "sw_select", !.kind = "switch", !.user = u, !.sub = s,
                             !.umeta = profile[u]])
    /\ ops' = ops + 1
    /\ UNCHANGED <<subs, profile, prov, now, res, cfg, gem>>

\* ... the record must be an active one of the caller ...
switch_select(h) ==
    /\ hs[h].pc = "sw_select"
    /\ LET s == hs[h].sub
       IN  IF subs[s].status = "active" /\ subs[s].user = hs[h].user
           THEN Goto(h, [hs[h] EXCEPT !.pc = "sw_write", !.plan = subs[s].plan])
           ELSE Reply(h, "forbidden", 403)
    /\ UNCHANGED <<subs, profile, prov, now, ops, res, cfg, gem>>

\* ... and its plan is written into the metadata
switch_updateUser(h) ==
    /\ hs[h].pc = "sw_write"
    /\ profile' = [profile EXCEPT ![hs[h].user] = [hs[h].umeta EXCEPT !.plan = hs[h].plan]]
    /\ Reply(h, "switched", 200)
    /\ UNCHANGED <<subs, prov, now, ops, res, cfg, gem>>

\* ---------------------------------------------------------- admin override
\* the reference an override writes (its timestamp suffix is left out)
AdminRef == "admin_override"

\* handleAdminUpdateUserPlan: read the user ...
handleAdminUpdateUserPlan(h, u, newPlan) ==
    /\ CanStart(h)
    /\ Goto(h, [Idle EXCEPT !.pc = "adm_write", !.kind = "admin", !.user = u,
                             !.plan = newPlan, !.umeta = profile[u]])
    /\ ops' = ops + 1
    /\ UNCHANGED <<subs, profile, prov, now, res, cfg, gem>>

\* ... write the plan into the metadata ...
admin_updateUser(h) ==
    /\ hs[h].pc = "adm_write"
    /\ profile' = [profile EXCEPT ![hs[h].user] = [hs[h].umeta EXCEPT !.plan = hs[h].plan]]
    /\ Goto(h, [hs[h] EXCEPT !.pc = IF hs[h].plan = "free" THEN "adm_cancel" ELSE "adm_select"])
    /\ UNCHANGED <<subs, prov, now, ops, res, cfg, gem>>

\* ... for free, cancel every active row of the user ...
admin_cancelActive(h) ==
    /\ hs[h].pc = "adm_cancel"
    /\ subs' = [s \in Recs |-> IF s \in ActiveOf(hs[h].user)
                               THEN [subs[s] EXCEPT !.status = "cancelled"] ELSE subs[s]]
    /\ Reply(h, "overridden", 200)
    /\ UNCHANGED <<profile, prov, now, ops, res, cfg, gem>>

\* ... for a paid plan, look for the latest pending row of that plan ...
RecIndex(s) == CHOOSE i \in 1..Len(RecOrder) : RecOrder[i] = s
LatestPending(u, plan) ==
    LET c == {s \in Recs : subs[s].status = "pending" /\ subs[s].user = u /\ subs[s].plan = plan}
    IN  IF c = {} THEN NULL
        ELSE CHOOSE s \in c : \A x \in c : subs[x].created < subs[s].created
                                            \/ (subs[x].created = subs[s].created /\ RecIndex(x) <= RecIndex(s))

admin_selectPending(h) ==
    /\ hs[h].pc = "adm_select"
    /\ Goto(h, [hs[h] EXCEPT !.pc = "adm_sync", !.sub = LatestPending(hs[h].user, hs[h].plan)])
    /\ UNCHANGED <<subs, profile, prov, now, ops, res, cfg, gem>>

\* ... and activate it by id, or insert an active row when there is none
\* (the insert waits while the model has no unused record id)
admin_sync(h) ==
    /\ hs[h].pc = "adm_sync"
    /\ IF hs[h].sub # NULL
       THEN subs' = [subs EXCEPT ![hs[h].sub] = [@ EXCEPT !.status = "active", !.ref = AdminRef]]
       ELSE /\ FreeRec # NULL
            /\ subs' = [subs EXCEPT ![FreeRec] =
                          [NoRow EXCEPT !.status = "active", !.plan = hs[h].plan,
                                        !.user = hs[h].user, !.ref = AdminRef, !.created = now]]
    /\ Reply(h, "overridden", 200)
    /\ UNCHANGED <<profile, prov, now, ops, res, cfg, gem>>

\* ------------------------------------------------------------ config cache
\* One configuration key (site_url, live mode) stands for the config: its
\* value in table `_app_config`, and the value in cachedConfig.  The
\* database answers every query.
ConfigValues == {"v1", "v2"}

\* CACHE_TTL, 5 minutes, on a clock that counts days
CacheTtlDays == 0

\* !cachedConfig || (now - cacheLastUpdated > CACHE_TTL)
IsStale(cached, lastUpdated, today) == cached = NULL \/ today - lastUpdated > CacheTtlDays

\* getCachedConfig of a request that only reads the config: take
\* Date.now(); answer from the cache, or go and fetch the table
getCachedConfig(h) ==
    /\ CanStart(h)
    /\ IF IsStale(cfg.cachedConfig, cfg.cacheLastUpdated, now)
       THEN /\ Goto(h, [Idle EXCEPT !.pc = "cfg_fetch", !.kind = "config"])
            /\ cfg' = [cfg EXCEPT !.calls[h] = [NoConfigCall EXCEPT !.now = now]]
       ELSE /\ Respond(h, "config", cfg.cachedConfig, 200, NULL, FALSE)
            /\ cfg' = cfg
    /\ ops' = ops + 1
    /\ UNCHANGED <<subs, profile, prov, now, res, gem>>

\* fetchConfigFromDatabase: the select reads the table
config_fetch(h) ==
    /\ hs[h].pc = "cfg_fetch"
    /\ cfg' = [cfg EXCEPT !.calls[h].dbConfig = cfg.db]
    /\ Goto(h, [hs[h] EXCEPT !.pc = "cfg_store"])
    /\ UNCHANGED <<subs, profile, prov, now, ops, res, gem>>

\* the continuation of the fetch: cachedConfig is built from the rows
\* fetched, cacheLastUpdated is the Date.now() taken at the start, and the
\* cache is returned; updateAdminConfig then answers success
config_store(h) ==
    /\ hs[h].pc = "cfg_store"
    /\ LET c == cfg.calls[h]
       IN  IF hs[h].kind = "update"
           THEN /\ cfg' = [cfg EXCEPT !.cachedConfig = c.dbConfig, !.cacheLastUpdated = c.now,
                                      !.updated = hs[h].ref]
                /\ Reply(h, "updated", 200)
           ELSE /\ cfg' = [cfg EXCEPT !.cachedConfig = c.dbConfig, !.cacheLastUpdated = c.now]
                /\ Reply(h, c.dbConfig, 200)
    /\ UNCHANGED <<subs, profile, prov, now, ops, res, gem>>

\* updateAdminConfig: the upsert of the values sent, or its error (500)
updateAdminConfig(h, value, upsertOk) ==
    /\ CanStart(h)
    /\ IF upsertOk
       THEN /\ cfg' = [cfg EXCEPT !.db = value]
            /\ Goto(h, [Idle EXCEPT !.pc = "cfg_clear", !.kind = "update", !.ref = value])
       ELSE /\ cfg' = cfg
            /\ Respond(h, "update", "database_error", 500, NULL, FALSE)
    /\ ops' = ops + 1
    /\ UNCHANGED <<subs, profile, prov, now, res, gem>>

\* after the upsert: clearConfigCache(), then getCachedConfig() up to its
\* fetch
update_clearConfigCache(h) ==
    /\ hs[h].pc = "cfg_clear"
    /\ cfg' = [cfg EXCEPT !.cachedConfig = NULL, !.cacheLastUpdated = 0,
                          !.calls[h] = [NoConfigCall EXCEPT !.now = now]]
    /\ Goto(h, [hs[h] EXCEPT !.pc = "cfg_fetch"])
    /\ UNCHANGED <<subs, profile, prov, now, ops, res, gem>>

\* ------------------------------------------------------- Gemini key pool
\* how one generateContent attempt ends: with a response, with an error
\* whose message names the API key, quota, rate limit, overload or
\* UNAVAILABLE, or with any other error
AttemptResults == {"ok", "recoverable", "unrecoverable"}

\* (startIndex + i) % keys.length
KeyIndexNoWrap(startIndex, i, n) == startIndex + i
KeyIndex(startIndex, i, n) == (startIndex + i) % n

\* callGeminiWithRetry with a pool of n keys: no key, throw; else take the
\* shared index as startIndex and move the shared index on
callGeminiWithRetry(h, n) ==
    /\ CanStart(h)
    /\ IF n = 0
       THEN /\ gem' = [gem EXCEPT !.calls[h] = NoGeminiCall]
            /\ Respond(h, "gemini", "no_keys", 500, NULL, FALSE)
       ELSE /\ gem' = [currentKeyIndex |-> (gem.currentKeyIndex + 1) % n,
                       calls |-> [gem.calls EXCEPT ![h] =
                                    [keys |-> n, startIndex |-> gem.currentKeyIndex,
                                     attempts |-> <<>>]]]
            /\ Goto(h, [Idle EXCEPT !.pc = "gem_try", !.kind = "gemini"])
    /\ ops' = ops + 1
    /\ UNCHANGED <<subs, profile, prov, now, res, cfg>>

\* one turn of the loop: the attempt with key (startIndex + i) % n, then
\* return the text, or break and throw, or go on to the next i, or leave
\* the loop after the last key and throw
gemini_generateContent(h, result) ==
    /\ hs[h].pc = "gem_try"
    /\ LET c == gem.calls[h]
           i == Len(c.attempts)
           keyIndex == KeyIndex(c.startIndex, i, c.keys)
       IN  /\ gem' = [gem EXCEPT !.calls[h].attempts =
                                   Append(@, [key |-> keyIndex, result |-> result])]
           /\ IF result = "ok" THEN Reply(h, "text", 200)
              ELSE IF result = "unrecoverable" THEN Reply(h, "failed", 500)
              ELSE IF i + 1 < c.keys THEN Goto(h, hs[h])
              ELSE Reply(h, "all_failed", 500)
    /\ UNCHANGED <<subs, profile, prov, now, ops, res, cfg>>

\* ------------------------------------------------------------------ time
Tick ==
    /\ now < MaxTicks * TickDays
    /\ now' = now + TickDays
    /\ UNCHANGED <<subs, profile, prov, hs, ops, last, res, cfg, gem>>

\* ------------------------------------------------------- specifications
\* the steps of requests in flight
Step(h) ==
    \/ activate_load(h)
    \/ activate_updateSub(h)
    \/ activate_getUser(h)
    \/ activate_otherActiveSubs(h)
    \/ activate_updateUser(h)
    \/ recover_select(h)
    \/ ended_otherActiveSubs(h)
    \/ ended_getUser(h)
    \/ ended_updateUser(h)
    \/ renewed_getUser(h)
    \/ renewed_updateUser(h)
    \/ generate_expire(h)
    \/ generate_getUser(h)
    \/ admin_updateUser(h)
    \/ admin_cancelActive(h)
    \/ admin_selectPending(h)
    \/ admin_sync(h)

SubIds == {SubIdOf(s) : s \in Recs}
AllPayIds == UNION {PayIds(s) : s \in Recs}

\* what the provider signs an event of this type with
GoodSignature(type) == Hmac(Secret, BodyCode(type))

\* The lifecycle: every endpoint that touches a subscription row, webhooks
\* arriving signed by the provider with the metadata checkout attached.
Next ==
    \/ \E h \in Handlers, u \in Users, planId \in {"one_time", "subscription"} :
          createCheckoutSession(h, u, planId, "ok")
    \/ \E s \in Recs, w \in BOOLEAN : ProviderPay(s, w)
    \/ \E h \in Handlers, s \in Recs :
       \E payRef \in PayIds(s) :
          /\ Exists(s)
          /\ webhook_paymentSucceeded(h, GoodSignature("payment.succeeded"), Secret, s, TRUE,
                                      subs[s].plan, payRef, SubIdOf(s))
    \/ \E h \in Handlers, id \in SubIds :
          webhook_paymentFailed(h, GoodSignature("payment.failed"), Secret, id)
    \/ \E h \in Handlers, id \in SubIds :
          webhook_onHold(h, GoodSignature("subscription.on_hold"), Secret, id)
    \/ \E h \in Handlers, id \in SubIds,
          type \in {"subscription.cancelled", "subscription.expired"} :
          webhook_ended(h, GoodSignature(type), Secret, type, id)
    \/ \E h \in Handlers, id \in SubIds :
          webhook_renewed(h, GoodSignature("subscription.renewed"), Secret, id)
    \/ \E h \in Handlers, caller \in Users, s \in Recs : handleVerifyPaymentStatus(h, caller, s)
    \/ \E h \in Handlers, paymentId \in AllPayIds : handleRecoverByPaymentId(h, paymentId)
    \/ \E h \in Handlers, u \in Users : canUserGenerate(h, u)
    \/ \E h \in Handlers, u \in Users, newPlan \in {"free", "hobbyist", "pro"} :
          handleAdminUpdateUserPlan(h, u, newPlan)
    \/ \E h \in Handlers : Step(h)
    \/ Tick

Spec == Init /\ [][Next]_vars

\* The webhook endpoint alone, with every signature header, both states of
\* the configured secret and every shape of payment.succeeded.
NextWebhook ==
    \/ \E h \in Handlers, u \in Users, planId \in {"one_time", "subscription"} :
       \E provider \in {"error", "ok"} :
          createCheckoutSession(h, u, planId, provider)
    \/ \E s \in Recs, w \in BOOLEAN : ProviderPay(s, w)
    \/ \E h \in Handlers, signature \in Signatures, secret \in SecretConfigs :
       \E i \in 1..Len(EventTypes) : handleDodoWebhook_reject(h, signature, secret, EventTypes[i])
    \/ \E h \in Handlers, signature \in Signatures, secret \in SecretConfigs :
       \E s \in Recs, hasMeta \in BOOLEAN, planName \in PlanNames \cup {"team"} :
       \E payRef \in PayIds(s), subscription \in {NULL, SubIdOf(s)} :
          webhook_paymentSucceeded(h, signature, secret, s, hasMeta, planName, payRef, subscription)
    \/ \E h \in Handlers, signature \in Signatures, secret \in SecretConfigs :
          webhook_unhandled(h, signature, secret)
    \/ \E h \in Handlers, signature \in Signatures, secret \in SecretConfigs, id \in SubIds :
          webhook_paymentFailed(h, signature, secret, id)
    \/ \E h \in Handlers, signature \in Signatures, secret \in SecretConfigs, id \in SubIds :
       \E type \in {"subscription.cancelled", "subscription.expired"} :
          webhook_ended(h, signature, secret, type, id)
    \/ \E h \in Handlers :
          \/ activate_load(h)
          \/ activate_updateSub(h)
          \/ activate_getUser(h)
          \/ activate_otherActiveSubs(h)
          \/ activate_updateUser(h)
          \/ ended_otherActiveSubs(h)
          \/ ended_getUser(h)
          \/ ended_updateUser(h)

SpecWebhook == Init /\ [][NextWebhook]_vars

\* One paid checkout of the hobbyist plan, its record still pending, and
\* nothing but confirmations of that payment: payment.succeeded deliveries,
\* verify-by-id and recover-by-payment-id calls, all for the same reference.
InitRace ==
    /\ subs = [s \in Recs |-> IF s = "s1"
                               THEN [NoRow EXCEPT !.status = "pending", !.plan = "hobbyist",
                                                  !.user = "u1", !.session = SessionOf("s1")]
                               ELSE NoRow]
    /\ profile = [u \in Users |-> NoMeta]
    /\ prov = [s \in Recs |-> IF s = "s1"
                               THEN [payment_id |-> PrimaryPay("s1"), subscription_id |-> NULL, paid |-> TRUE]
                               ELSE NoSession]
    /\ hs = [h \in Handlers |-> Idle]
    /\ now = 0
    /\ ops = 0
    /\ last = NoResponse
    /\ res = NoResolution
    /\ cfg = NoConfig
    /\ gem = NoGemini

NextRace ==
    \/ \E h \in Handlers :
          webhook_paymentSucceeded(h, GoodSignature("payment.succeeded"), Secret, "s1", TRUE,
                                   "hobbyist", PrimaryPay("s1"), NULL)
    \/ \E h \in Handlers : handleVerifyPaymentStatus(h, "u1", "s1")
    \/ \E h \in Handlers : handleRecoverByPaymentId(h, PrimaryPay("s1"))
    \/ \E h \in Handlers :
          \/ recover_select(h)
          \/ activate_load(h)
          \/ activate_updateSub(h)
          \/ activate_getUser(h)
          \/ activate_otherActiveSubs(h)
          \/ activate_updateUser(h)

SpecRace == InitRace /\ [][NextRace]_vars

\* The same payment and its confirmations, where the profile write of an
\* activation may fail.
NextCrash ==
    \/ NextRace
    \/ \E h \in Handlers : activate_updateUserFails(h)

SpecCrash == InitRace /\ [][NextCrash]_vars

\* Checkout with everything that can go wrong in it, the confirmations of
\* the payments, and the admin override.
NextCheckout ==
    \/ \E h \in Handlers, u \in Users, planId \in {"one_time", "subscription"} :
       \E provider \in ProviderOutcomes :
          createCheckoutSession(h, u, planId, provider)
    \/ \E s \in Recs, w \in BOOLEAN : ProviderPay(s, w)
    \/ \E h \in Handlers, s \in Recs :
          /\ Exists(s)
          /\ webhook_paymentSucceeded(h, GoodSignature("payment.succeeded"), Secret, s, TRUE,
                                      subs[s].plan, PrimaryPay(s), SubIdOf(s))
    \/ \E h \in Handlers, caller \in Users, s \in Recs : handleVerifyPaymentStatus(h, caller, s)
    \/ \E h \in Handlers, paymentId \in AllPayIds : handleRecoverByPaymentId(h, paymentId)
    \/ \E h \in Handlers, u \in Users, newPlan \in {"free", "hobbyist", "pro"} :
          handleAdminUpdateUserPlan(h, u, newPlan)
    \/ \E h \in Handlers :
          \/ recover_select(h)
          \/ activate_load(h)
          \/ activate_updateSub(h)
          \/ activate_getUser(h)
          \/ activate_otherActiveSubs(h)
          \/ activate_updateUser(h)
          \/ admin_updateUser(h)
          \/ admin_cancelActive(h)
          \/ admin_selectPending(h)
          \/ admin_sync(h)

SpecCheckout == Init /\ [][NextCheckout]_vars

\* The upgrade and its end: a user, with or without a paid and activated
\* hobbyist purchase, buys pro; the subscription is confirmed, and later
\* cancelled or expired.
InitUpgrade ==
    /\ \E holdsHobbyist \in BOOLEAN :
          IF holdsHobbyist
          THEN /\ subs = [s \in Recs |->
                           IF s = "s1"
                           THEN [NoRow EXCEPT !.status = "active", !.plan = "hobbyist",
                                              !.user = "u1", !.session = SessionOf("s1"),
                                              !.ref = PrimaryPay("s1")]
                           ELSE NoRow]
               /\ profile = [u \in Users |->
                              [plan |-> "hobbyist", bal |-> <<HOBBYIST_GENERATION_LIMIT>>]]
               /\ prov = [s \in Recs |->
                           IF s = "s1"
                           THEN [payment_id |-> PrimaryPay("s1"), subscription_id |-> NULL, paid |-> TRUE]
                           ELSE NoSession]
          ELSE /\ subs = [s \in Recs |-> NoRow]
               /\ profile = [u \in Users |-> NoMeta]
               /\ prov = [s \in Recs |-> NoSession]
    /\ hs = [h \in Handlers |-> Idle]
    /\ now = 0
    /\ ops = 0
    /\ last = NoResponse
    /\ res = NoResolution
    /\ cfg = NoConfig
    /\ gem = NoGemini

NextUpgrade ==
    \/ \E h \in Handlers : createCheckoutSession(h, "u1", "subscription", "ok")
    \/ \E s \in Recs : ProviderPay(s, FALSE)
    \/ \E h \in Handlers, s \in Recs :
          /\ Exists(s) /\ subs[s].plan = "pro"
          /\ webhook_paymentSucceeded(h, GoodSignature("payment.succeeded"), Secret, s, TRUE,
                                      "pro", PrimaryPay(s), SubIdOf(s))
    \/ \E h \in Handlers, type \in {"subscription.cancelled", "subscription.expired"} :
       \E id \in SubIds :
          webhook_ended(h, GoodSignature(type), Secret, type, id)
    \/ \E h \in Handlers :
          \/ activate_load(h)
          \/ activate_updateSub(h)
          \/ activate_getUser(h)
          \/ activate_otherActiveSubs(h)
          \/ activate_updateUser(h)
          \/ ended_otherActiveSubs(h)
          \/ ended_getUser(h)
          \/ ended_updateUser(h)

SpecUpgrade == InitUpgrade /\ [][NextUpgrade]_vars

\* The confirmation endpoints against records in every status: checkouts
\* (some failing before the session id is stored), payments, payment and
\* subscription events, and verify-by-id called by the owner, by another
\* authenticated user, or without authentication.
OtherUser == "u2"
Callers == Users \cup {OtherUser, NULL}

NextVerify ==
    \/ \E h \in Handlers, u \in Users, planId \in {"one_time", "subscription"} :
       \E provider \in {"error", "ok"} :
          createCheckoutSession(h, u, planId, provider)
    \/ \E s \in Recs : ProviderPay(s, subs[s].plan = "hobbyist")
    \/ \E s \in Recs : ProviderPayNoId(s)
    \/ \E h \in Handlers, s \in Recs :
          /\ Exists(s)
          /\ webhook_paymentSucceeded(h, GoodSignature("payment.succeeded"), Secret, s, TRUE,
                                      subs[s].plan, PrimaryPay(s), SubIdOf(s))
    \/ \E h \in Handlers, id \in SubIds :
          webhook_paymentFailed(h, GoodSignature("payment.failed"), Secret, id)
    \/ \E h \in Handlers, id \in SubIds,
          type \in {"subscription.cancelled", "subscription.expired"} :
          webhook_ended(h, GoodSignature(type), Secret, type, id)
    \/ \E h \in Handlers, id \in SubIds :
          webhook_renewed(h, GoodSignature("subscription.renewed"), Secret, id)
    \/ \E h \in Handlers, caller \in Callers, s \in Recs : handleVerifyPaymentStatus(h, caller, s)
    \/ \E h \in Handlers, paymentId \in AllPayIds : handleRecoverByPaymentId(h, paymentId)
    \/ \E h \in Handlers :
          \/ recover_select(h)
          \/ activate_load(h)
          \/ activate_updateSub(h)
          \/ activate_getUser(h)
          \/ activate_otherActiveSubs(h)
          \/ activate_updateUser(h)
          \/ ended_otherActiveSubs(h)
          \/ ended_getUser(h)
          \/ ended_updateUser(h)
          \/ renewed_getUser(h)
          \/ renewed_updateUser(h)

SpecVerify == Init /\ [][NextVerify]_vars

\* Verified events of every shape: payment.succeeded with or without its
\* metadata, for records in the store or not, with or without the provider's
\* subscription identifier, for plans handled or not, and events of a type
\* that has no case.
NextEvents ==
    \/ \E h \in Handlers, u \in Users, planId \in {"one_time", "subscription"} :
          createCheckoutSession(h, u, planId, "ok")
    \/ \E s \in Recs, w \in BOOLEAN : ProviderPay(s, w)
    \/ \E h \in Handlers, s \in Recs, hasMeta \in BOOLEAN, planName \in PlanNames \cup {"team"} :
       \E payRef \in PayIds(s), subscription \in {NULL, SubIdOf(s)} :
          webhook_paymentSucceeded(h, GoodSignature("payment.succeeded"), Secret, s, hasMeta,
                                   planName, payRef, subscription)
    \/ \E h \in Handlers : webhook_unhandled(h, GoodSignature("customer.created"), Secret)
    \/ \E h \in Handlers :
          \/ activate_load(h)
          \/ activate_updateSub(h)
          \/ activate_getUser(h)
          \/ activate_otherActiveSubs(h)
          \/ activate_updateUser(h)

SpecEvents == Init /\ [][NextEvents]_vars

\* Generation next to purchases: a user, with or without an activated
\* hobbyist purchase, buys a plan, the payment is confirmed, and permission
\* checks and credit consumption run alongside.
NextGenerate ==
    \/ \E h \in Handlers, planId \in {"one_time", "subscription"} :
          createCheckoutSession(h, "u1", planId, "ok")
    \/ \E s \in Recs : ProviderPay(s, subs[s].plan = "hobbyist")
    \/ \E h \in Handlers, s \in Recs :
          /\ Exists(s) /\ subs[s].status = "pending"
          /\ webhook_paymentSucceeded(h, GoodSignature("payment.succeeded"), Secret, s, TRUE,
                                      subs[s].plan, PrimaryPay(s), SubIdOf(s))
    \/ \E h \in Handlers : canUserGenerate(h, "u1")
    \/ \E h \in Handlers : consumeGenerationCredit(h, "u1")
    \/ \E h \in Handlers :
          \/ activate_load(h)
          \/ activate_updateSub(h)
          \/ activate_getUser(h)
          \/ activate_otherActiveSubs(h)
          \/ activate_updateUser(h)
          \/ generate_getUser(h)
          \/ consume_getUser(h)
          \/ consume_updateUser(h)

SpecGenerate == InitUpgrade /\ [][NextGenerate]_vars

\* Generation next to purchases and their end: the same, with the
\* subscriptions cancelled or expired by the provider.
NextBalance ==
    \/ NextGenerate
    \/ \E h \in Handlers, type \in {"subscription.cancelled", "subscription.expired"} :
       \E id \in SubIds :
          webhook_ended(h, GoodSignature(type), Secret, type, id)
    \/ \E h \in Handlers :
          \/ ended_otherActiveSubs(h)
          \/ ended_getUser(h)
          \/ ended_updateUser(h)

SpecBalance == InitUpgrade /\ [][NextBalance]_vars

\* The upgrade and its end, with the user switching between the plans of
\* the active records.
NextSwitch ==
    \/ NextUpgrade
    \/ \E h \in Handlers, s \in Recs : handleSwitchPlan(h, "u1", s)
    \/ \E h \in Handlers : switch_select(h) \/ switch_updateUser(h)

SpecSwitch == InitUpgrade /\ [][NextSwitch]_vars

\* A pro subscription through its billing periods: the record is active
\* with the period end its first renewal wrote, the clock moves on, renewal
\* events arrive and permission checks run alongside.
InitExpiry ==
    /\ subs = [s \in Recs |->
                IF s = "s1"
                THEN [NoRow EXCEPT !.status = "active", !.plan = "pro", !.user = "u1",
                                   !.session = SessionOf("s1"), !.ref = SubIdOf("s1"),
                                   !.period = <<PeriodDays>>]
                ELSE NoRow]
    /\ profile = [u \in Users |-> [plan |-> "pro", bal |-> <<>>]]
    /\ prov = [s \in Recs |->
                IF s = "s1"
                THEN [payment_id |-> NULL, subscription_id |-> SubIdOf("s1"), paid |-> TRUE]
                ELSE NoSession]
    /\ hs = [h \in Handlers |-> Idle]
    /\ now = 0
    /\ ops = 0
    /\ last = NoResponse
    /\ res = NoResolution
    /\ cfg = NoConfig
    /\ gem = NoGemini

NextExpiry ==
    \/ \E h \in Handlers : canUserGenerate(h, "u1")
    \/ \E h \in Handlers : consumeGenerationCredit(h, "u1")
    \/ \E h \in Handlers :
          webhook_renewed(h, GoodSignature("subscription.renewed"), Secret, SubIdOf("s1"))
    \/ \E h \in Handlers :
          \/ generate_expire(h)
          \/ generate_getUser(h)
          \/ consume_getUser(h)
          \/ consume_updateUser(h)
          \/ renewed_getUser(h)
          \/ renewed_updateUser(h)
    \/ Tick

SpecExpiry == InitExpiry /\ [][NextExpiry]_vars

\* Generation requests alone, concurrent, of a user on the free tier, of a
\* hobbyist holder, and of a pro subscriber before and after the period end.
InitDiagram == InitUpgrade \/ InitExpiry

NextDiagram ==
    \/ \E h \in Handlers, userApiKey \in {NULL, UserKey} : handleGenerateDiagram(h, "u1", userApiKey)
    \/ \E h \in Handlers, ok \in BOOLEAN : diagram_aiService(h, ok)
    \/ \E h \in Handlers :
          \/ diagram_expire(h)
          \/ diagram_getUser(h)
          \/ diagram_consumeSelect(h)
          \/ diagram_consumeGetUser(h)
          \/ diagram_consumeUpdateUser(h)
    \/ Tick

SpecDiagram == InitDiagram /\ [][NextDiagram]_vars

\* The config cache: reads of the config, updates by the admin, and the
\* clock moving past the TTL.
NextConfig ==
    \/ \E h \in Handlers : getCachedConfig(h)
    \/ \E h \in Handlers, value \in ConfigValues, upsertOk \in BOOLEAN :
          updateAdminConfig(h, value, upsertOk)
    \/ \E h \in Handlers :
          \/ config_fetch(h)
          \/ config_store(h)
          \/ update_clearConfigCache(h)
    \/ Tick

SpecConfig == Init /\ [][NextConfig]_vars

\* Calls of the Gemini provider with key pools of every size up to MaxKeys,
\* from every initial value of the shared index up to MaxStartIndex.
InitGemini ==
    /\ subs = [s \in Recs |-> NoRow]
    /\ profile = [u \in Users |-> NoMeta]
    /\ prov = [s \in Recs |-> NoSession]
    /\ hs = [h \in Handlers |-> Idle]
    /\ now = 0
    /\ ops = 0
    /\ last = NoResponse
    /\ res = NoResolution
    /\ cfg = NoConfig
    /\ gem \in {[NoGemini EXCEPT !.currentKeyIndex = k] : k \in 0..MaxStartIndex}

NextGemini ==
    \/ \E h \in Handlers, n \in 0..MaxKeys : callGeminiWithRetry(h, n)
    \/ \E h \in Handlers, result \in AttemptResults : gemini_generateContent(h, result)

SpecGemini == InitGemini /\ [][NextGemini]_vars

\* The two plan resolvers on every list of at most MaxPlans plan names.
PlanLists == UNION {[1..n -> PlanNames] : n \in 0..MaxPlans}

InitResolver ==
    /\ subs = [s \in Recs |-> NoRow]
    /\ profile = [u \in Users |-> NoMeta]
    /\ prov = [s \in Recs |-> NoSession]
    /\ hs = [h \in Handlers |-> Idle]
    /\ now = 0
    /\ ops = 0
    /\ last = NoResponse
    /\ res \in {[NoResolution EXCEPT !.plans = p] : p \in PlanLists}
    /\ cfg = NoConfig
    /\ gem = NoGemini

NextResolver ==
    \/ resolve_inline
    \/ resolve_reduce
    \/ \E i \in 1..MaxPlans : resolve_reorder(i)

SpecResolver == InitResolver /\ [][NextResolver]_vars
\* ------------------------------------------------------------ properties
\* the request in slot h takes this step
Steps(h) == hs'[h] # hs[h]

\* the row and its reference as step 0 of activation finds them
AtLoad(h, status) ==
    /\ hs[h].pc = "act_load"
    /\ Steps(h)
    /\ subs[hs[h].sub].status = status
    /\ subs[hs[h].sub].ref # NULL
    /\ hs[h].ref # NULL

\* C2: activation of a record that is already active with the incoming
\* reference returns at once: no row and no profile changes, no profile write
\* is issued, and the caller answers success; so a confirmation applied again
\* leaves the state of the first application.
C2_SameReferenceIsNoOp ==
    [][\A h \in Handlers :
         AtLoad(h, "active") /\ subs[hs[h].sub].ref = hs[h].ref
         => /\ subs' = subs
            /\ profile' = profile
            /\ hs'[h] = Idle
            /\ last'.out = "noop"
            /\ last'.resp = 200]_vars

C2_Witness ==
    /\ last.out = "noop"
    /\ subs["s1"].status = "active"
    /\ subs["s1"].plan = "hobbyist"
    /\ profile["u1"].bal = <<HOBBYIST_GENERATION_LIMIT>>

\* C3: activation of a record that is already active with another reference
\* throws: the row keeps its status and reference, the profile its plan and
\* balance, and the caller reports the failure (400 from the webhook, 500
\* from the recovery endpoints).
C3_OtherReferenceIsConflict ==
    [][\A h \in Handlers :
         AtLoad(h, "active") /\ subs[hs[h].sub].ref # hs[h].ref
         => /\ subs' = subs
            /\ profile' = profile
            /\ hs'[h] = Idle
            /\ last'.out = "conflict"
            /\ last'.resp = (IF hs[h].kind = "webhook" THEN 400 ELSE 500)]_vars

C3_Witness ==
    /\ last.out = "conflict"
    /\ \E s \in Recs : subs[s].status = "active" /\ subs[s].ref \in PayIds(s)

\* C5: a reference that is set stays as it is: no step, whatever the status
\* of the record, replaces a non-null reference by another value.
C5_ReferenceImmutable ==
    [][\A s \in Recs : subs[s].ref # NULL => subs'[s].ref = subs[s].ref]_vars

\* a step of an admin override
AdminStep == \E h \in Handlers : Steps(h) /\ (hs[h].kind = "admin" \/ hs'[h].kind = "admin")

\* C6: a record that is cancelled or expired keeps that status under every
\* webhook event, recovery call and permission check.
C6_TerminalStaysTerminal ==
    [][~AdminStep =>
         \A s \in Recs : subs[s].status \in {"cancelled", "expired"}
                          => subs'[s].status = subs[s].status]_vars

\* the edges of the state machine as the specification lists them
MachineEdges ==
    {<<"pending", "active">>,
     <<"active", "past_due">>, <<"active", "cancelled">>, <<"active", "expired">>,
     <<"past_due", "active">>, <<"past_due", "expired">>}

\* every change of status of a record that is not terminal is one of edges
StatusMoves(edges) ==
    \A s \in Recs :
        subs[s].status \in {"pending", "active", "past_due"} /\ subs'[s].status # subs[s].status
        => <<subs[s].status, subs'[s].status>> \in edges

\* the first step of a payment.failed, subscription.on_hold, .cancelled,
\* .expired or .renewed event: its update of the rows matched by reference
SubscriptionEventStep ==
    /\ ops' = ops + 1
    /\ \/ \E h \in Handlers : hs'[h].pc \in {"end_subs", "ren_user"} /\ hs[h].pc = "idle"
       \/ hs' = hs /\ last'.out \in {"past_due", "on_hold", "no_row"}

PendingUntouched ==
    SubscriptionEventStep => \A s \in Recs : subs[s].status = "pending" => subs'[s] = subs[s]

\* C7 as stated: status changes of a record that is not terminal follow
\* pending -> active, active -> past_due | cancelled | expired,
\* past_due -> active | expired, and subscription events leave pending
\* records alone.
C7_MachineEdgesOnly ==
    [][StatusMoves(MachineEdges) /\ PendingUntouched]_vars

\* C7, amended: the same with the edge past_due -> cancelled, which
\* subscription.cancelled takes on a record whose payment had failed.
C7_EdgesWithCancelFromPastDue ==
    [][StatusMoves(MachineEdges \cup {<<"past_due", "cancelled">>}) /\ PendingUntouched]_vars

C7_Witness ==
    /\ last.out = "past_due"
    /\ \E s \in Recs : subs[s].status = "past_due"
    /\ \E s \in Recs : subs[s].status = "pending"

\* no request is in flight
Quiescent == \A h \in Handlers : hs[h].pc = "idle"

\* C1: whenever the confirmations of the one payment sent so far have all
\* been answered, the record is active and the balance is the hobbyist
\* grant, once.
C1_GrantedExactlyOnce ==
    Quiescent /\ ops > 0
    => /\ subs["s1"].status = "active"
       /\ profile["u1"].bal = <<HOBBYIST_GENERATION_LIMIT>>

\* C4: of two activations racing on a record only the first writes: step 1
\* of activation is never taken on a row that an activation has already set
\* active.
C4_SecondWriterYields ==
    [][\A h \in Handlers :
         hs[h].pc = "act_update" /\ Steps(h) => subs[hs[h].sub].status # "active"]_vars

\* a webhook request whose signature is not the HMAC of its body under the
\* configured secret takes this step
ForgedWebhookStep ==
    \/ ops' = ops + 1 /\ hs' = hs /\ last'.kind = "webhook" /\ last'.auth = "forged"
    \/ \E h \in Handlers : Steps(h) /\ (hs[h].auth = "forged" \/ hs'[h].auth = "forged")

VerificationFailures == {"missing_signature", "not_configured", "bad_length", "mismatch"}

\* C8: a webhook request without signature header, or arriving while no
\* secret is configured, or signed with anything but the HMAC of its body
\* (of the digest's length or not) is answered with an error at its first
\* step, its body is not parsed, and no row and no profile changes.
C8_FailsClosed ==
    [][ForgedWebhookStep
       => /\ subs' = subs
          /\ profile' = profile
          /\ hs' = hs
          /\ last'.out \in VerificationFailures
          /\ last'.resp >= 400
          /\ ~last'.parsed]_vars

C8_Witness ==
    /\ last.kind = "webhook"
    /\ last.auth = "forged"
    /\ last.out = "bad_length"
    /\ \E s \in Recs : subs[s].status = "pending"

\* the answer to a request that failed verification: client error, body not
\* parsed
RejectedAnswer ==
    last.kind = "webhook" /\ last.out \in VerificationFailures
    => last.resp = 400 /\ ~last.parsed

\* C9 as stated: a verification failure is answered with a client error and
\* not processed, and every event that passed verification is answered
\* with success.
C9_VerifiedMeansSuccess ==
    /\ RejectedAnswer
    /\ last.kind = "webhook" /\ last.out \notin VerificationFailures => last.resp = 200

\* C9, amended: every event that passed verification is answered with
\* success when processing returns (applied, no-op, unhandled type, nothing
\* to do), and with a client error when activation throws the reference
\* conflict.
C9_SuccessUnlessConflict ==
    /\ RejectedAnswer
    /\ last.kind = "webhook" /\ last.out \notin VerificationFailures
       => /\ last.parsed
          /\ last.resp = (IF last.out = "conflict" THEN 400 ELSE 200)

C9_Witness ==
    /\ last.kind = "webhook"
    /\ last.auth = "genuine"
    /\ last.out = "noop"
    /\ last.resp = 200

\* the highest plan among the names listed, free when there is none
Highest(plans) ==
    LET present == {plans[i] : i \in 1..Len(plans)}
    IN  IF "pro" \in present THEN "pro"
        ELSE IF "hobbyist" \in present THEN "hobbyist" ELSE "free"

\* C10: each resolver returns the highest plan in the list, free for the
\* empty list; a result computed for one order of the list is the result
\* for every other order; and the two resolvers agree.
C10_ResolversAgree ==
    /\ res.inline # NULL => res.inline = Highest(res.plans) /\ res.inline = NewPrimaryPlan(res.plans)
    /\ res.reduce # NULL => res.reduce = Highest(res.plans) /\ res.reduce = BestCurrentPlan(res.plans)
    /\ res.inline # NULL /\ res.reduce # NULL => res.inline = res.reduce
    /\ NewPrimaryPlan(<<"hobbyist", "pro">>) = "pro"
    /\ NewPrimaryPlan(<<>>) = "free"
    /\ NewPrimaryPlan(<<"hobbyist">>) = "hobbyist"

C10_Witness ==
    /\ res.plans = <<"hobbyist", "pro", "hobbyist">>
    /\ res.inline = "pro"
    /\ res.reduce = "pro"

\* the balance the permission check uses for a free-tier user: the stored
\* one, the free grant when none is stored
FreeTierBalance(meta) == IF meta.bal # <<>> THEN meta.bal[1] ELSE FREE_GENERATION_LIMIT

\* C11: a permission check that finds the user's active pro record lapsed
\* marks the record expired and then decides as for a free-tier user:
\* allowed exactly when the free-tier balance is greater than zero.
C11_LapsedProIsFreeTier ==
    [][\A h \in Handlers :
         /\ hs[h].pc = "gen_expire" /\ Steps(h)
            => subs'[hs[h].sub].status = "expired"
         /\ hs[h].pc = "gen_user" /\ hs[h].sub # NULL /\ Steps(h)
            => last'.out = (IF FreeTierBalance(profile[hs[h].user]) > 0
                            THEN "allowed" ELSE "denied")]_vars

\* a step that answers a checkout request
CheckoutStep == ops' = ops + 1 /\ last'.kind = "checkout"

\* the plans of the user's active records
ActivePlans(u) == OtherActive(u, NULL, RecOrder)

\* C12: a checkout whose target plan does not rank above the user's best
\* active plan is answered with a conflict and inserts no record: every
\* record a checkout inserts ranks above the best active plan, and every
\* checkout of a user with an active pro record is a conflict.
C12_NoCheckoutAtOrBelowActivePlan ==
    [][CheckoutStep =>
         /\ \A s \in Recs :
               subs'[s] # subs[s]
               => PlanPriority(subs'[s].plan)
                    > PlanPriority(BestCurrentPlan(ActivePlans(subs'[s].user)))
         /\ (\A u \in Users : BestCurrentPlan(ActivePlans(u)) = "pro")
               => last'.out = "conflict" /\ subs' = subs]_vars

\* C13: a subscription checkout inserts no record while the user already
\* has a pending or an active record for the pro plan.
C13_NoDuplicateSubscriptionCheckout ==
    [][CheckoutStep =>
         \A s \in Recs :
           subs'[s] # subs[s] /\ subs'[s].plan = "pro"
           => ~\E x \in Recs : /\ subs[x].user = subs'[s].user
                               /\ subs[x].plan = "pro"
                               /\ subs[x].status \in {"pending", "active"}]_vars

Orphan(s) == subs[s].status = "pending" /\ subs[s].session = NULL

\* what the failed checkout itself does: the caller gets an error, the new
\* record stays, pending and without session id, nothing else changes
FailedCheckoutLeavesOrphan ==
    \A h \in Handlers, u \in Users, planId \in {"one_time", "subscription"} :
      createCheckoutSession(h, u, planId, "error")
      => /\ last'.resp = 500
         /\ profile' = profile
         /\ \E s \in Recs :
               /\ subs[s].status = "none"
               /\ subs'[s].status = "pending" /\ subs'[s].session = NULL
               /\ subs'[s].user = u /\ subs'[s].plan = PlanOfProduct(planId)
               /\ \A x \in Recs \ {s} : subs'[x] = subs[x]

\* the orphan rejects no later checkout of its user for its plan
OrphanBlocksNoCheckout ==
    \A h \in Handlers, u \in Users, planId \in {"one_time", "subscription"} :
      /\ createCheckoutSession(h, u, planId, "ok")
      /\ \E s \in Recs : Orphan(s) /\ subs[s].user = u /\ subs[s].plan = PlanOfProduct(planId)
      => last'.resp = 200

\* no step changes the orphan
OrphanStaysPending == \A s \in Recs : Orphan(s) => subs'[s] = subs[s]

\* no handler takes the orphan up (only a handler that has taken up a record
\* writes a profile for it)
OrphanNotTakenUp ==
    \A s \in Recs : Orphan(s) => \A h \in Handlers : Steps(h) => hs'[h].sub # s

C16_AtMostOneOfTwoActivated ==
    \A a, b \in Recs :
      /\ a # b
      /\ subs[a].user = subs[b].user /\ subs[a].plan = subs[b].plan
      /\ subs[a].session # NULL /\ subs[b].session # NULL
      /\ subs[a].ref # AdminRef /\ subs[b].ref # AdminRef
      => ~(subs[a].status = "active" /\ subs[b].status = "active")

\* C17: subscription.cancelled for the reference of a record cancels that
\* record; when the user is then found without an active record the handler
\* goes on to the downgrade, and the downgrade writes plan free and
\* generation_balance 0.
C17_OnlyActiveCancelledMeansFree ==
    [][/\ \A h \in Handlers, id \in SubIds :
            webhook_ended(h, GoodSignature("subscription.cancelled"), Secret,
                          "subscription.cancelled", id)
            => \A s \in Recs : RefMatches(subs[s], id) => subs'[s].status = "cancelled"
       /\ \A h \in Handlers :
            /\ hs[h].pc = "end_subs" /\ Steps(h) /\ ActiveOf(hs[h].user) = {}
               => hs'[h].pc = "end_user"
            /\ hs[h].pc = "end_write" /\ Steps(h)
               => /\ profile'[hs[h].user].plan = "free"
                  /\ profile'[hs[h].user].bal = <<0>>]_vars

\* the user's only active record, a pro record, has been cancelled by its
\* reference and the profile has been downgraded
C17_Witness ==
    /\ last.kind = "webhook" /\ last.out = "downgraded"
    /\ \E s \in Recs : /\ subs[s].status = "cancelled" /\ subs[s].plan = "pro"
                       /\ subs[s].ref = SubIdOf(s)
                       /\ ActiveOf(subs[s].user) = {}
                       /\ profile[subs[s].user] = [plan |-> "free", bal |-> <<0>>]

\* C18: when a cancelled or expired event has been processed for a record of
\* a user who still holds active records, and nothing else is in flight, the
\* profile plan is the plan resolver's result over the remaining active
\* records.
C18_RemainingPlanResolved ==
    [][\A h \in Handlers :
         /\ hs[h].pc = "end_subs" /\ Steps(h)
         /\ ActiveOf(hs[h].user) # {}
         /\ \A g \in Handlers \ {h} : hs[g].pc = "idle"
         => profile'[hs[h].user].plan = NewPrimaryPlan(ActivePlans(hs[h].user))]_vars

\* an active hobbyist record of user u
HoldsHobbyist(u) ==
    \E s \in Recs : subs[s].status = "active" /\ subs[s].plan = "hobbyist" /\ subs[s].user = u

\* C19: the holder of an active hobbyist record gets a checkout for pro; the
\* activation of a pro record changes no other record, and its profile write
\* sets the plan to pro and clears the stored balance.
C19_UpgradeKeepsHobbyistRecord ==
    [][/\ \A h \in Handlers, u \in Users :
            createCheckoutSession(h, u, "subscription", "ok") /\ HoldsHobbyist(u)
            => /\ last'.resp = 200
               /\ \E s \in Recs : /\ subs[s].status = "none"
                                  /\ subs'[s].status = "pending" /\ subs'[s].plan = "pro"
       /\ \A h \in Handlers :
            /\ hs[h].pc \in {"act_load", "act_update", "act_read", "act_write"}
            /\ hs[h].plan = "pro" /\ Steps(h)
            => /\ \A x \in Recs \ {hs[h].sub} : subs'[x] = subs[x]
               /\ hs[h].pc = "act_write"
                  => /\ profile'[hs[h].user].plan = "pro"
                     /\ profile'[hs[h].user].bal = <<>>]_vars

\* the hobbyist holder's pro record has been activated: the profile says
\* pro without a balance, the hobbyist record is as it was
C19_Witness ==
    /\ last.out = "applied"
    /\ subs["s1"] = [NoRow EXCEPT !.status = "active", !.plan = "hobbyist", !.user = "u1",
                                  !.session = SessionOf("s1"), !.ref = PrimaryPay("s1")]
    /\ subs["s2"].status = "active" /\ subs["s2"].plan = "pro"
    /\ subs["s2"].user = "u1" /\ subs["s2"].ref = SubIdOf("s2")
    /\ profile["u1"] = [plan |-> "pro", bal |-> <<>>]

\* C20: when payment.succeeded with reference r activates a pending hobbyist
\* record for the first time, the record is set active with reference r;
\* the profile write, made on reads that are still current, sets the plan
\* to the resolved plan (pro when the user holds an active pro record,
\* hobbyist otherwise) and the balance to the previous balance, 0 when
\* unset, plus the hobbyist grant.
C20_FirstHobbyistActivation ==
    [][\A h \in Handlers :
         /\ hs[h].kind = "webhook" /\ hs[h].plan = "hobbyist" /\ hs[h].was = "pending"
         /\ Steps(h)
         => /\ hs[h].pc = "act_update"
               => /\ subs'[hs[h].sub].status = "active"
                  /\ subs'[hs[h].sub].ref = hs[h].ref
            /\ /\ hs[h].pc = "act_write"
               /\ hs[h].umeta = profile[hs[h].user]
               /\ hs[h].others = OtherActive(hs[h].user, hs[h].sub, RecOrder)
               => LET u == hs[h].user
                      previous == IF profile[u].bal = <<>> THEN 0 ELSE profile[u].bal[1]
                      holdsPro == \E x \in ActiveOf(u) : subs[x].plan = "pro"
                  IN  /\ profile'[u].plan = (IF holdsPro THEN "pro" ELSE "hobbyist")
                      /\ profile'[u].bal = <<previous + HOBBYIST_GENERATION_LIMIT>>]_vars

\* a second hobbyist purchase has been activated by its payment.succeeded:
\* the balance is the grant of the first purchase plus the grant
C20_Witness ==
    /\ last.kind = "webhook" /\ last.out = "applied"
    /\ \E s \in Recs : /\ subs[s].status = "active" /\ subs[s].plan = "hobbyist"
                       /\ subs[s].ref = PrimaryPay(s)
                       /\ profile[subs[s].user].plan = "hobbyist"
                       /\ profile[subs[s].user].bal = <<2 * HOBBYIST_GENERATION_LIMIT>>

\* C21: once a confirmation of the payment has been answered with success
\* and nothing is in flight, the record is active and the profile carries
\* the resolved plan and the hobbyist grant, once, also when an earlier
\* activation set the record active and then failed to write the profile.
C21_RerunRepairsProfile ==
    /\ Quiescent
    /\ last.kind \in {"webhook", "verify", "recover"}
    /\ last.resp = 200
    => /\ subs["s1"].status = "active"
       /\ profile["u1"] = [plan |-> "hobbyist", bal |-> <<HOBBYIST_GENERATION_LIMIT>>]

\* C22: on every activation path (payment.succeeded, verify-by-id,
\* recover-by-payment-id) the reference written for a hobbyist record is the
\* payment id the provider reports for the record's session, and the
\* reference written for a pro record is the provider's subscription id.
C22_ReferenceByPlan ==
    [][\A h \in Handlers :
         /\ hs[h].pc = "act_update" /\ Steps(h)
         /\ hs[h].kind \in {"webhook", "verify", "recover"}
         => LET s == hs[h].sub
            IN  subs'[s].ref = (IF subs[s].plan = "hobbyist"
                                THEN prov[s].payment_id
                                ELSE prov[s].subscription_id)]_vars

\* the provider reports payment id p for the session of a record created
\* within the recovery window
ProviderConfirms(p) ==
    \E s \in Recs : /\ Exists(s) /\ subs[s].session # NULL
                     /\ subs[s].created >= now - RecoveryWindowDays
                     /\ prov[s].payment_id = p

\* C23: while the provider does not report the session as paid, verify-by-id
\* and recover-by-payment-id answer pending (202) and change no record and
\* no profile; once the provider reports the payment, a call is not
\* answered pending any more.
C23_PendingUntilConfirmed ==
    [][/\ \A h \in Handlers, u \in Users, s \in Recs :
            handleVerifyPaymentStatus(h, u, s)
            /\ subs[s].user = u /\ subs[s].status = "pending" /\ subs[s].session # NULL
            => IF SessionIsPaid(prov[s])
               THEN hs'[h].pc # "idle"
               ELSE last'.resp = 202 /\ hs'[h].pc = "idle"
       /\ \A h \in Handlers, p \in AllPayIds :
            handleRecoverByPaymentId(h, p)
            => IF ProviderConfirms(p)
               THEN ~(last'.resp = 202 /\ hs'[h].pc = "idle")
               ELSE last'.resp = 202 /\ hs'[h].pc = "idle"
       /\ (\E h \in Handlers : Steps(h) /\ hs'[h].pc = "idle" /\ last'.resp = 202)
            => subs' = subs /\ profile' = profile]_vars

\* C24: subscription.renewed for the reference of a record sets the record
\* active and moves a period end that is set forward by exactly one billing
\* period; the profile write that follows sets the plan to the plan
\* resolver's result over the user's active records.
C24_RenewalAddsOnePeriod ==
    [][/\ \A h \in Handlers, id \in SubIds :
            webhook_renewed(h, GoodSignature("subscription.renewed"), Secret, id)
            => \A s \in Recs :
                 RefMatches(subs[s], id)
                 => /\ subs'[s].status = "active"
                    /\ subs[s].period # <<>>
                       => subs'[s].period = <<subs[s].period[1] + PeriodDays>>
       /\ \A h \in Handlers :
            hs[h].pc = "ren_write" /\ Steps(h)
            /\ (\A g \in Handlers \ {h} : hs[g].pc = "idle")
            => profile'[hs[h].user].plan = NewPrimaryPlan(ActivePlans(hs[h].user))]_vars

\* the kind of request a step belongs to: that of the handler that moves
\* on, or that of the request that starts (and perhaps answers at once)
StepKind ==
    LET moving == {h \in Handlers : hs[h].pc # "idle" /\ Steps(h)}
        starting == {h \in Handlers : hs[h].pc = "idle" /\ Steps(h)}
    IN  IF moving # {} THEN hs[CHOOSE h \in moving : TRUE].kind
        ELSE IF ops' # ops + 1 THEN NULL
        ELSE IF starting # {} THEN hs'[CHOOSE h \in starting : TRUE].kind
        ELSE last'.kind

\* record s enters the store: pending, without reference, by a checkout
InsertedByCheckout(s) ==
    /\ subs[s].status = "none"
    /\ subs'[s].status = "pending" /\ subs'[s].ref = NULL
    /\ StepKind = "checkout"

\* record s, in the store, is changed by an event transition, by the
\* activation of a webhook, verify or recover call, or by lazy expiry
ChangedByEventProcessor(s) ==
    /\ Exists(s)
    /\ subs'[s].status # "none"
    /\ StepKind \in {"webhook", "verify", "recover", "generate"}

\* record s is written by an admin override: the record the override found
\* as the latest pending one of the plan is set active, or an active record
\* is inserted, both with the admin reference, or an active record is
\* cancelled (override to free)
ChangedByAdminOverride(s) ==
    /\ StepKind = "admin"
    /\ \/ /\ subs'[s].status = "active" /\ subs'[s].ref = AdminRef
          /\ Exists(s) => subs'[s] = [subs[s] EXCEPT !.status = "active", !.ref = AdminRef]
       \/ /\ subs[s].status = "active"
          /\ subs'[s] = [subs[s] EXCEPT !.status = "cancelled"]

\* C25 as stated: every record enters pending by a checkout, and every other
\* change of a record is made by the event processor.
C25_OnlyCheckoutAndEvents ==
    [][\A s \in Recs :
         subs'[s] # subs[s] => InsertedByCheckout(s) \/ ChangedByEventProcessor(s)]_vars

\* C25, amended: every record enters pending by a checkout, or active with
\* the admin reference by an admin override; every other change of a record
\* is made by the event processor or by an admin override, which sets
\* active the record it found pending or cancels an active one.
C25_CheckoutEventsAndAdmin ==
    [][\A s \in Recs :
         subs'[s] # subs[s]
         => \/ InsertedByCheckout(s)
            \/ ChangedByEventProcessor(s)
            \/ ChangedByAdminOverride(s)]_vars

\* a record that a checkout inserted and an admin override activated, next
\* to a record that a payment confirmation activated
C25_Witness ==
    \E a, b \in Recs :
      /\ subs[a].status = "active" /\ subs[a].ref = AdminRef /\ subs[a].session # NULL
      /\ subs[b].status = "active" /\ subs[b].ref \in PayIds(b) \cup {SubIdOf(b)}

C27_WriteKeepsConcurrentChanges ==
    [][\A h \in Handlers :
         hs[h].pc = "act_write" /\ Steps(h) /\ profile' # profile
         => LET u == hs[h].user
            IN  profile'[u].bal = NewMetadata(profile[u], hs[h].plan, hs[h].was = "active",
                                              profile'[u].plan).bal]_vars

\* C28: an activation writes the profile only when the write changes
\* something: no updateUserById is made with metadata equal to the metadata
\* the activation has read.
C28_NoWriteWithoutChange ==
    [][\A h \in Handlers :
         hs[h].pc = "act_write" /\ Steps(h) /\ last'.out = "applied"
         => profile'[hs[h].user] # hs[h].umeta]_vars

\* the plan a profile stands for: plan || 'free'
ProfilePlan(u) == IF profile[u].plan = NULL THEN "free" ELSE profile[u].plan

\* C29: whenever no handler is mid-execution, each user's profile plan is
\* the plan resolver's result over the user's active records.
C29_ProfilePlanIsResolvedPlan ==
    Quiescent => \A u \in Users : ProfilePlan(u) = NewPrimaryPlan(ActivePlans(u))

\* an active pro record of user u whose period end is unset or not yet past
HoldsValidPro(u) ==
    \E s \in Recs : /\ subs[s].status = "active" /\ subs[s].plan = "pro" /\ subs[s].user = u
                     /\ ~IsLapsed(subs[s].period, now)

\* C30: for a user who holds an active pro record that has not lapsed,
\* whatever other records the user has, canUserGenerate answers allowed
\* with unlimited balance and consumeGenerationCredit consumes nothing.
C30_ProIsUnlimited ==
    [][\A h \in Handlers, u \in Users :
         HoldsValidPro(u)
         => /\ canUserGenerate(h, u) => last'.out = "allowed_pro" /\ hs'[h].pc = "idle"
            /\ consumeGenerationCredit(h, u) => last'.out = "unlimited" /\ hs'[h].pc = "idle"]_vars

\* C31: a permission check sets a record expired only if the record's
\* period end is in the past at the moment the status write is applied,
\* also when a subscription.renewed event for the record was processed
\* between the check's read and its write.
C31_ExpiresOnlyLapsed ==
    [][\A h \in Handlers :
         hs[h].pc = "gen_expire" /\ Steps(h)
         => IsLapsed(subs[hs[h].sub].period, now)]_vars

C33_MalformedEventChangesNothing ==
    [][ops' = ops + 1
       => /\ \A h \in Handlers, s \in Recs :
             \A hasMeta \in BOOLEAN, planName \in PlanNames \cup {"team"} :
             \A payRef \in PayIds(s), subscription \in {NULL, SubIdOf(s)} :
               /\ \/ ~hasMeta
                  \/ ~Exists(s)
                  \/ planName = "pro" /\ subscription = NULL
                  \/ planName \notin {"hobbyist", "pro"}
               /\ webhook_paymentSucceeded(h, GoodSignature("payment.succeeded"), Secret, s,
                                           hasMeta, planName, payRef, subscription)
               => subs' = subs /\ profile' = profile /\ hs'[h].pc = "idle"
          /\ \A h \in Handlers :
               webhook_unhandled(h, GoodSignature("customer.created"), Secret)
               => subs' = subs /\ profile' = profile /\ hs'[h].pc = "idle"]_vars

\* a payment.succeeded event for a paid pro record was answered as lacking
\* the subscription identifier, and the record is still pending
C33_Witness ==
    /\ last.kind = "webhook" /\ last.out = "missing_subscription_id" /\ last.resp = 200
    /\ \E s \in Recs : /\ subs[s].status = "pending" /\ subs[s].plan = "pro"
                       /\ prov[s] # NoSession

\* the record whose session reports payment id p is active
ActiveFor(p) == \E s \in Recs : subs[s].status = "active" /\ prov[s].payment_id = p

\* C34: no step of a recover-by-payment-id call changes a record that is
\* not pending at that step; and a call for a payment whose record is
\* already active is answered at once with the pending outcome (202) and
\* leaves every record and every profile as it was, so that repeating it
\* changes nothing either.
C34_RecoverLeavesNonPending ==
    [][\A h \in Handlers :
         /\ hs[h].kind = "recover" /\ Steps(h)
            => \A s \in Recs : subs[s].status # "pending" => subs'[s] = subs[s]
         /\ \A p \in AllPayIds :
              handleRecoverByPaymentId(h, p) /\ ActiveFor(p)
              => /\ last'.kind = "recover" /\ last'.resp = 202 /\ hs'[h].pc = "idle"
                 /\ subs' = subs /\ profile' = profile]_vars

\* the second half of C34 alone
C34_ActiveAnsweredPending ==
    [][\A h \in Handlers, p \in AllPayIds :
         handleRecoverByPaymentId(h, p) /\ ActiveFor(p)
         => /\ last'.kind = "recover" /\ last'.resp = 202 /\ hs'[h].pc = "idle"
            /\ subs' = subs /\ profile' = profile]_vars

\* C35: verify-by-id called by the owner for a record that is already
\* active answers success at once, whatever the provider reports for the
\* record's session, and changes no record and no profile.
C35_VerifyOfActiveIsSuccess ==
    [][\A h \in Handlers, u \in Users, s \in Recs :
         handleVerifyPaymentStatus(h, u, s) /\ subs[s].status = "active" /\ subs[s].user = u
         => /\ last'.kind = "verify" /\ last'.out = "already_active" /\ last'.resp = 200
            /\ hs'[h].pc = "idle"
            /\ subs' = subs /\ profile' = profile /\ prov' = prov]_vars

\* verify-by-id has answered that the plan is already active for a record
\* whose session the provider does not report as paid
C35_Witness ==
    /\ last.kind = "verify" /\ last.out = "already_active"
    /\ \E s \in Recs : subs[s].status = "active" /\ ~SessionIsPaid(prov[s])
    /\ \A s \in Recs : subs[s].status = "active" => ~SessionIsPaid(prov[s])

\* the call is answered at once with this status and nothing is changed
RejectedWith(h, status) ==
    /\ last'.kind = "verify" /\ last'.resp = status
    /\ hs'[h].pc = "idle"
    /\ subs' = subs /\ profile' = profile

\* C36: verify-by-id answers 401 to an unauthenticated caller, 404 for a
\* record id that is not a record of the caller, 409 for a record of the
\* caller in status past_due, cancelled or expired or pending without a
\* session id, and in each case changes no record and no profile; the
\* activation it enters is for a record of the caller, and no step of the
\* call changes another record.
C36_VerifyRejectsWithoutChange ==
    [][\A h \in Handlers :
         /\ \A caller \in Callers, s \in Recs :
              handleVerifyPaymentStatus(h, caller, s)
              => /\ caller = NULL => RejectedWith(h, 401)
                 /\ caller # NULL /\ subs[s].user # caller => RejectedWith(h, 404)
                 /\ /\ caller # NULL /\ subs[s].user = caller
                    /\ \/ subs[s].status \in {"past_due", "cancelled", "expired"}
                       \/ subs[s].status = "pending" /\ subs[s].session = NULL
                    => RejectedWith(h, 409)
                 /\ hs'[h].pc # "idle"
                    => /\ subs[s].user = caller
                       /\ hs'[h].sub = s /\ hs'[h].user = caller
         /\ hs[h].kind = "verify" /\ Steps(h)
            => \A x \in Recs :
                 subs'[x] # subs[x] => x = hs[h].sub /\ subs[x].user = hs[h].user]_vars

\* verify-by-id has answered 409 while every record in the store is past
\* due, cancelled or expired
C36_Witness ==
    /\ last.kind = "verify" /\ last.resp = 409 /\ last.out = "not_verifiable"
    /\ \E s \in Recs : Exists(s)
    /\ \A s \in Recs : Exists(s) => subs[s].status \in {"past_due", "cancelled", "expired"}

\* no stored generation_balance is below zero
BalanceNotNegative(p) == \A u \in Users : p[u].bal # <<>> => p[u].bal[1] >= 0

\* C37: generation_balance is never negative.  Every write of the balance
\* is one of these: consumeGenerationCredit writes the balance it read
\* less 1 when that was positive and 0 when it was 0; an activation writes
\* the balance it read plus the hobbyist grant, or leaves the balance out
\* (pro), or writes it back as read; cancellation and expiry write 0.
C37_BalanceNeverNegative ==
    [][/\ BalanceNotNegative(profile) /\ BalanceNotNegative(profile')
       /\ \A h \in Handlers :
            Steps(h) /\ profile' # profile
            => LET read == hs[h].umeta
                   cur == CurrentBalance(read)
                   bal == profile'[hs[h].user].bal
               IN  CASE hs[h].pc = "con_write" ->
                          bal = <<IF cur > 0 THEN cur - 1 ELSE 0>>
                     [] hs[h].pc = "act_write" ->
                          bal \in {read.bal, <<>>,
                                   <<(IF read.bal = <<>> THEN 0 ELSE read.bal[1])
                                      + HOBBYIST_GENERATION_LIMIT>>}
                     [] hs[h].pc = "end_write" -> bal = <<0>>
                     [] OTHER -> FALSE]_vars

\* consumeGenerationCredit has lowered the balance to zero, and a further
\* call has read the zero balance and is about to write
C37_Witness ==
    /\ last.kind = "consume" /\ last.out = "consumed"
    /\ profile["u1"].bal = <<0>>
    /\ \E h \in Handlers : hs[h].pc = "con_write" /\ hs[h].umeta.bal = <<0>>

\* C38: a generation request of a user without pro access, made without
\* an own API key, completes only against a credit: when its diagram is
\* sent the stored balance is positive and the request lowers it by
\* exactly 1, so that the generations completed never outnumber the
\* credits held, whatever other generation requests run alongside.
C38_EachGenerationTakesOneCredit ==
    [][\A h \in Handlers :
         /\ hs[h].kind = "diagram" /\ hs[h].ref = NULL
         /\ Steps(h) /\ hs'[h].pc = "idle" /\ last'.out = "generated"
         /\ \A s \in Recs : subs[s].user = hs[h].user => subs[s].plan # "pro"
         => LET u == hs[h].user
            IN  /\ CurrentBalance(profile[u]) > 0
                /\ CurrentBalance(profile'[u]) = CurrentBalance(profile[u]) - 1]_vars

\* an update has answered success, the table still holds what it wrote,
\* and no further update is running
UpdateAnswered ==
    /\ cfg.updated # NULL /\ cfg.updated = cfg.db
    /\ \A h \in Handlers : hs[h].kind # "update"

\* C39: once updateAdminConfig has answered success, and while no further
\* update is running, every getCachedConfig called from then on returns
\* the value that update wrote: answered from the cache it returns that
\* value, and sent to the table it fetches that value; this also when a
\* refresh that had read the table before the update was in flight while
\* the update ran.  And a getCachedConfig called with a cache that is
\* filled and within its TTL returns the cached value at once, without a
\* fetch.
C39_ConfigReadsSeeUpdate ==
    [][\A h \in Handlers :
         /\ getCachedConfig(h) /\ UpdateAnswered
            => IF hs'[h].pc = "idle"
               THEN last'.kind = "config" /\ last'.out = cfg.updated
               ELSE hs'[h].pc = "cfg_fetch"
         /\ hs[h].kind = "config" /\ hs[h].pc = "cfg_fetch" /\ Steps(h) /\ UpdateAnswered
            => cfg'.calls[h].dbConfig = cfg.updated
         /\ /\ getCachedConfig(h)
            /\ cfg.cachedConfig # NULL /\ now - cfg.cacheLastUpdated <= CacheTtlDays
            => hs'[h].pc = "idle" /\ last'.out = cfg.cachedConfig /\ cfg' = cfg]_vars

\* C40: a call with no key throws at once.  A call with n keys takes the
\* shared index as its start and leaves the shared index in [0, n).  Every
\* turn of its loop makes one more attempt, never more than n in all, so
\* the call ends; the key index tried lies in [0, n), is the start index
\* (wrapped) at the first attempt and the next key in rotation after
\* that, and was not tried before; the attempts before it all failed with
\* a recoverable error; the call ends exactly at the first success, at
\* the first unrecoverable error, or after the n-th failure; it returns
\* the text when the attempt succeeded and throws otherwise.
C40_KeyRotationBounded ==
    [][\A h \in Handlers :
         /\ \A n \in 0..MaxKeys :
              callGeminiWithRetry(h, n)
              => IF n = 0
                 THEN hs'[h].pc = "idle" /\ last'.resp = 500
                 ELSE /\ gem'.calls[h].startIndex = gem.currentKeyIndex
                      /\ gem'.calls[h].attempts = <<>>
                      /\ gem'.currentKeyIndex \in 0..(n - 1)
         /\ hs[h].pc = "gem_try" /\ gem'.calls[h] # gem.calls[h]
            => LET c == gem.calls[h]
                   a == gem'.calls[h].attempts
                   k == Len(a)
               IN  /\ k = Len(c.attempts) + 1 /\ k <= c.keys
                   /\ a[k].key \in 0..(c.keys - 1)
                   /\ a[k].key = IF k = 1 THEN c.startIndex % c.keys
                                 ELSE (a[k - 1].key + 1) % c.keys
                   /\ \A j \in 1..(k - 1) :
                        a[j].key # a[k].key /\ a[j].result = "recoverable"
                   /\ hs'[h].pc = "idle"
                        <=> a[k].result \in {"ok", "unrecoverable"} \/ k = c.keys
                   /\ hs'[h].pc = "idle"
                        => last'.resp = IF a[k].result = "ok" THEN 200 ELSE 500]_vars

\* a call with a pool of MaxKeys keys has made attempts, and a call with
\* a smaller pool, started from a shared index that is not below the size
\* of its pool, has tried every key of it and thrown
C40_Witness ==
    \E g, h \in Handlers :
       /\ gem.calls[g].keys = MaxKeys /\ gem.calls[g].attempts # <<>>
       /\ hs[h].pc = "idle" /\ last.kind = "gemini" /\ last.out = "all_failed"
       /\ LET c == gem.calls[h]
          IN  /\ c.keys \in 2..(MaxKeys - 1)
              /\ c.startIndex >= c.keys
              /\ Len(c.attempts) = c.keys
====
